---- MODULE Spec2Model ----
(***************************************************************************)
(* State-machine model of the bedrock_fe Streamlit front-end: the session  *)
(* dictionary (st.session_state), the page scripts, the login views, the   *)
(* chat streaming loop, the admin console and the API client functions.    *)
(*                                                                         *)
(* One action is one script run of a page (Streamlit reruns the whole page *)
(* script for every widget event); st.rerun() is the pending flag `rerun`, *)
(* which forces the next step to be a plain run of the same page.          *)
(***************************************************************************)
EXTENDS Integers, Sequences, FiniteSets, TLC

VARIABLES
    ss,         \* st.session_state: key -> <<>> (key absent) or <<value>>
    page,       \* the page whose script ran last ("none" before the first load)
    rendered,   \* what the last script run put on the screen: the UI
                \* component and the messages shown (st.error, flash)
    rerun,      \* TRUE: st.rerun() was called, a plain run of `page` is pending
    sent,       \* the backend requests sent by the last script run / API call
    ret,        \* the (ok, msg, data) tuple the last API client call returned
    gen,        \* the streaming_response generator of the running chat answer
    dialog,     \* the hard-delete confirmation dialog (its idxes argument)
    call,       \* the direct call of an API client function that happened last,
                \* NoCall once a page script has run
    checked     \* history: for each uniqueness lock that is true, the text
                \* whose duplicate check set it (None while the lock is false)

vars == <<ss, page, rendered, rerun, sent, ret, gen, dialog, call, checked>>

----------------------------------------------------------------------------
(* Python values.  A text is the sequence of its characters; None and the  *)
(* booleans are one-element sequences that are no text, so that a key that *)
(* holds None at one time and a bool or a text at another stays comparable.*)

None   == <<"None">>
PTrue  == <<"True">>
PFalse == <<"False">>

\* Python truthiness of a scalar (bool / None / text as character sequence)
Truthy(v) == v \notin {None, PFalse, <<>>}

Absent == <<>>
Val(v) == <<v>>
Has(s, k) == Len(s[k]) = 1
Get(s, k) == s[k][1]
Put(s, k, v) == [s EXCEPT ![k] = Val(v)]
Pop(s, k) == [s EXCEPT ![k] = Absent]

----------------------------------------------------------------------------
(* Session keys                                                            *)

LOGGED_IN    == "logged_in"
ID           == "id"
USER_NAME    == "user_name"
KTR_ID       == "ktr_id"
EMAIL        == "email"
IS_DEVELOPER == "is_developer"
IS_ADMIN     == "is_admin"
MESSAGE      == "message"
STREAMING    == "streaming"
STOP_STREAM  == "stop_stream"
MODEL_LIST   == "model_list"
MODEL        == "model"
MODEL_IDX    == "model_number"
LOGIN_VIEW   == "login_view"

FLASH_ADMIN_TABLE == "flash_admin_table_box"

LOGIN_BEFORE        == "login_before"
SIGN_UP             == "sign_up"
PERSONAL_INFO_AGREE == "p_info_agree"
LOST_PASSWORD       == "lost_password"
LOGIN_AFTER         == "login_after"
EDIT                == "edit"
SOFT_DELETE         == "soft_delete"

SK_USER_ID     == "signup_user_id_verified"
SK_KTR_ID      == "signup_ktr_id_verified"
SK_EMAIL       == "signup_email_verified"
SK_USER_ID_MSG == "signup_user_id_message"
SK_KTR_ID_MSG  == "signup_ktr_id_message"
SK_EMAIL_MSG   == "signup_email_message"

ADMIN_VIEW      == "admin_view"
V_ALL           == "f_all"
V_USER_ID       == "f_user_id"
V_SIGNUP        == "f_signup"
V_DEVELOPER     == "f_developer"
V_BLOCK         == "f_block"
V_CLEAR         == "f_clear"
V_NONE          == "None"    \* Python None as the value of ADMIN_VIEW
TABLE_ALL       == "t_all"
TABLE_USER_ID   == "t_user_id"
TABLE_SIGNUP    == "t_signup"
TABLE_DEVELOPER == "t_developer"
TABLE_BLOCK     == "t_block"
TABLE_CLAER     == "t_clear"

INDEX_LIST     == "admin_selected_idxes"
ADMIN_IDX_LIST == "admin_admin_idxes"
BLOCK_IDX_LIST == "admin_block_idxes"
DELETE_WAIT    == "admin_delete_wait"

\* the keys _init_session_action writes
BaseKeys == {LOGGED_IN, ID, USER_NAME, KTR_ID, EMAIL, IS_DEVELOPER, IS_ADMIN,
             MESSAGE, STREAMING, STOP_STREAM, LOGIN_VIEW}
\* the cached model information InitModelInfo loads
ModelKeys == {MODEL_LIST, MODEL, MODEL_IDX}
SignupKeys == {SK_USER_ID, SK_KTR_ID, SK_EMAIL,
               SK_USER_ID_MSG, SK_KTR_ID_MSG, SK_EMAIL_MSG}
TableKeys == {TABLE_ALL, TABLE_USER_ID, TABLE_SIGNUP, TABLE_DEVELOPER,
              TABLE_BLOCK, TABLE_CLAER}
AdminKeys == TableKeys \cup {ADMIN_VIEW, INDEX_LIST, ADMIN_IDX_LIST,
                             BLOCK_IDX_LIST, DELETE_WAIT, FLASH_ADMIN_TABLE}
SessionKeys == BaseKeys \cup ModelKeys \cup SignupKeys \cup AdminKeys

----------------------------------------------------------------------------
(* utils/session.py                                                        *)

SessionDefault(k) ==
    CASE k = LOGGED_IN    -> PFalse
      [] k = ID           -> None
      [] k = USER_NAME    -> None
      [] k = KTR_ID       -> None
      [] k = EMAIL        -> None
      [] k = IS_DEVELOPER -> None
      [] k = IS_ADMIN     -> None
      [] k = MESSAGE      -> <<>>
      [] k = STREAMING    -> PFalse
      [] k = STOP_STREAM  -> PFalse
      [] k = LOGIN_VIEW   -> LOGIN_BEFORE

init_session_action(s) ==
    [k \in SessionKeys |-> IF k \in BaseKeys THEN Val(SessionDefault(k)) ELSE s[k]]

init_session_always(s, force) == init_session_action(s)

init_session(s, force) ==
    IF force \/ ~Has(s, LOGGED_IN) THEN init_session_action(s) ELSE s

----------------------------------------------------------------------------
(* routes/common.py: InitModelInfo.  The backend's model list and default  *)
(* model are fixed; each is loaded only when its key is absent.            *)

BackendModelList == <<"m1", "m2">>
BackendDefaultModel == "m1"

IndexOf(seq, x) == CHOOSE i \in 1..Len(seq) : seq[i] = x

InitModelInfo_run(s) ==
    LET s1 == IF Has(s, MODEL_LIST) THEN s ELSE Put(s, MODEL_LIST, BackendModelList)
        s2 == IF Has(s1, MODEL) THEN s1 ELSE Put(s1, MODEL, BackendDefaultModel)
    IN  IF Has(s2, MODEL_IDX) THEN s2
        ELSE Put(s2, MODEL_IDX, IndexOf(Get(s2, MODEL_LIST), Get(s2, MODEL)) - 1)

\* the first lines of every page script
PageHead(s) == InitModelInfo_run(init_session(s, FALSE))

----------------------------------------------------------------------------
(* utils/p1_login.py: the duplicate-check locks                            *)

keys_rock(s) ==
    LET f(t, k) == IF Has(t, k) /\ Truthy(Get(t, k)) THEN t ELSE Put(t, k, PFalse)
    IN  f(f(f(s, SK_USER_ID), SK_KTR_ID), SK_EMAIL)

keys_rock_init(s) ==
    [k \in SessionKeys |->
        IF k \in {SK_USER_ID, SK_KTR_ID, SK_EMAIL} THEN Val(PFalse)
        ELSE IF k \in {SK_USER_ID_MSG, SK_KTR_ID_MSG, SK_EMAIL_MSG} THEN Val(None)
        ELSE s[k]]

----------------------------------------------------------------------------
(* The backend, seen from the API client: the outcome of one HTTP request. *)
(*   [kind |-> "neterr"]                  no response (timeout, refused)   *)
(*   [kind |-> "status", ok |-> o]        a non-2xx answer                 *)
(*   [kind |-> "2xx", body |-> b]         b = [json |-> FALSE] when the    *)
(*        body is not valid JSON, else [json |-> TRUE, d |-> dictionary]   *)
(* A JSON dictionary is a function from field names to Python values; an   *)
(* integer n is <<"int", n>>, a dict r is <<"dict", r>>.                   *)

JInt(n) == <<"int", n>>
IsInt(v) == Len(v) = 2 /\ v[1] = "int"
IsBool(v) == v \in {PTrue, PFalse}
Dget(d, k) == IF k \in DOMAIN d THEN d[k] ELSE None

NotJson == [json |-> FALSE]
Json(d) == [json |-> TRUE, d |-> d]
NetErr == [kind |-> "neterr"]
Status(o) == [kind |-> "status", ok |-> o]
Ok2xx(b) == [kind |-> "2xx", body |-> b]

\* an exception leaving the parser (a KeyError on a missing field)
Raised == << <<"raised">>, <<"KeyError">>, None >>
IsRaised(r) == r[1] = <<"raised">>
NoRet == << <<"noret">>, None, None >>

\* a Python dict as a value
Dict(r) == <<"dict", r>>

Msg(name) == <<name>>
Request(url, payload) == [url |-> url, payload |-> payload]

\* bedrock_core's APIResponseHandler.run: send the request, hand a 2xx
\* response to func_200, turn every network/HTTP failure into
\* (None | False, message, None).
APIResponseHandler_run(url, func_200(_), payload, resp) ==
    [req |-> {Request(url, payload)},
     ret |-> CASE resp.kind = "neterr" -> <<None, Msg("API.NETWORK_ERROR"), None>>
               [] resp.kind = "status" -> <<resp.ok, Msg("API.HTTP_ERROR"), None>>
               [] resp.kind = "2xx"    -> func_200(resp.body)]

\* a client function that returns before any request is made
NoRequest(ok, msg, data) == [req |-> {}, ret |-> <<ok, msg, data>>]

----------------------------------------------------------------------------
(* api/p1_login.py: Status200                                              *)

UserInfoKeys == {"user_name", "ktr_id", "email", "developer", "admin"}

\* a mutated parser: an unparsable body reported as a failed login
L200_verify_login_nojsoncheck(b) ==
    IF b.json /\ Dget(b.d, "ok") = PTrue /\ UserInfoKeys \subseteq DOMAIN b.d
    THEN <<PTrue, Msg("LoginMsg.VERIFY_LOGIN_SUCCESS"), Dict([k \in UserInfoKeys |-> b.d[k]])>>
    ELSE <<PFalse, Msg("LoginMsg.FAIL_UNKNOWN"), None>>

L200_verify_login(b) ==
    IF ~b.json THEN <<None, Msg("LoginMsg.PARSING_JSON_FAIL"), None>>
    ELSE IF Dget(b.d, "ok") = PTrue
         THEN IF UserInfoKeys \subseteq DOMAIN b.d
              THEN <<PTrue, Msg("LoginMsg.VERIFY_LOGIN_SUCCESS"),
                     Dict([k \in UserInfoKeys |-> b.d[k]])>>
              ELSE Raised
         ELSE <<PFalse, Msg("LoginMsg.FAIL_UNKNOWN"), None>>

L200_verify_unique_key(b) ==
    IF ~b.json THEN <<None, Msg("LoginSignupMsg.PARSING_JSON_FAIL"), None>>
    ELSE IF Dget(b.d, "ok") = PTrue
         THEN LET key == Dget(b.d, "key")
                  exists == Dget(b.d, "exists")
                  msg == Dget(b.d, "msg")
              IN  IF key = None \/ exists = None \/ msg = None
                  THEN <<None, Msg("LoginSignupMsg.FAIL_UNKNOWN"), None>>
                  ELSE <<exists, msg, Dict([key |-> key])>>
         ELSE <<None, Msg("LoginSignupMsg.FAIL_UNKNOWN"), None>>

L200_add_new_user(b) ==
    IF ~b.json THEN <<None, Msg("LoginSignupMsg.PARSING_JSON_FAIL"), None>>
    ELSE IF Dget(b.d, "ok") = PTrue
         THEN LET idx == Dget(b.d, "idx")
              IN  \* isinstance(idx, int): a bool is an int in Python
                  IF ~(IsInt(idx) \/ IsBool(idx))
                  THEN <<None, Msg("LoginSignupMsg.FAIL_UNKNOWN"), None>>
                  ELSE <<PTrue, Msg("LoginSignupMsg.SUCCESS_ADD"), Dict([user_idx |-> idx])>>
         ELSE <<PFalse, Msg("LoginSignupMsg.FAIL_UNKNOWN"), None>>

L200_self_block(b) ==
    IF ~b.json THEN <<None, Msg("LoginSelfBlockMsg.PARSING_JSON_FAIL"), None>>
    ELSE IF Dget(b.d, "ok") = PTrue
         THEN <<PTrue, Msg("LoginSelfBlockMsg.SUCCESS"), Dict([user_idx |-> Dget(b.d, "idx")])>>
         ELSE <<PFalse, Msg("LoginSelfBlockMsg.FAIL_UNKNOWN"), None>>

L200_self_update(b) ==
    IF ~b.json THEN <<None, Msg("LoginSelfUpdateMsg.PARSING_JSON_FAIL"), None>>
    ELSE IF Dget(b.d, "ok") = PTrue
         THEN IF {"user_name", "email"} \subseteq DOMAIN b.d
              THEN <<PTrue, Msg("LoginSelfUpdateMsg.SUCCESS"),
                     Dict([k \in {"user_name", "email"} |-> b.d[k]])>>
              ELSE Raised
         ELSE <<PFalse, Msg("LoginSelfUpdateMsg.FAIL_UNKNOWN"), None>>

----------------------------------------------------------------------------
(* api/p1_login.py: the client functions                                   *)

verify_login(user_id, password, resp) ==
    APIResponseHandler_run("LoginAPIKeys.VERIFY_ID", L200_verify_login,
        [user_id |-> user_id, password |-> password], resp)

\* the keys among user_id / ktr_id / email that carry a value
Provided(user_id, ktr_id, email) ==
    {k \in {"user_id", "ktr_id", "email"} :
        LET v == CASE k = "user_id" -> user_id [] k = "ktr_id" -> ktr_id
                   [] k = "email" -> email
        IN  v \notin {None, <<>>}}

\* a mutated guard: only the no-key case is refused
verify_unique_key_atleastone(user_id, ktr_id, email, resp) ==
    IF Cardinality(Provided(user_id, ktr_id, email)) = 0
    THEN NoRequest(None, Msg("LoginSignupMsg.UNIQUE_KEY_ONLY_ONE"), None)
    ELSE APIResponseHandler_run("LoginAPIKeys.VERIFY_UNIQUE_KEY", L200_verify_unique_key,
            [user_id |-> user_id, ktr_id |-> ktr_id, email |-> email], resp)

verify_unique_key(user_id, ktr_id, email, resp) ==
    IF Cardinality(Provided(user_id, ktr_id, email)) # 1
    THEN NoRequest(None, Msg("LoginSignupMsg.UNIQUE_KEY_ONLY_ONE"), None)
    ELSE APIResponseHandler_run("LoginAPIKeys.VERIFY_UNIQUE_KEY", L200_verify_unique_key,
            [user_id |-> user_id, ktr_id |-> ktr_id, email |-> email], resp)

\* signup is None unless the caller passes it
add_new_user(user_id, ktr_id, email, pwd_raw, pwd_check, user_name, developer, signup, resp) ==
    APIResponseHandler_run("LoginAPIKeys.ADD_USER", L200_add_new_user,
        [user_id |-> user_id, ktr_id |-> ktr_id, email |-> email,
         pwd_raw |-> pwd_raw, pwd_check |-> pwd_check, user_name |-> user_name,
         developer |-> developer, admin |-> PFalse, signup |-> signup], resp)

self_block(user_id, password, resp) ==
    APIResponseHandler_run("LoginAPIKeys.SELF_BLOCK", L200_self_block,
        [user_id |-> user_id, password |-> password], resp)

self_update(user_id, pwd_current, user_name, developer, email, pwd_new_raw, pwd_new_check, resp) ==
    APIResponseHandler_run("LoginAPIKeys.SELF_UPDATE", L200_self_update,
        [user_id |-> user_id,
         payload |-> [user_name |-> user_name, developer |-> developer,
                      email |-> email, pwd_current |-> pwd_current,
                      pwd_new_raw |-> pwd_new_raw, pwd_new_check |-> pwd_new_check]],
        resp)

----------------------------------------------------------------------------
(* api/p9_admin.py: Status200.  The pydantic models of schemas/p9_admin.py *)
(* accept a body when every required field is there with its type.         *)

List(s) == <<"list", s>>
IsList(v) == Len(v) = 2 /\ v[1] = "list"
IsDict(v) == Len(v) = 2 /\ v[1] = "dict"

MultiRecordsLax_ok(d) == IsBool(Dget(d, "ok")) /\ IsList(Dget(d, "records"))

AdminBulkResp_ok(d) ==
    /\ IsBool(Dget(d, "ok"))
    /\ Dget(d, "key") \in {<<"signup">>, <<"block">>, <<"delete">>}
    /\ IsBool(Dget(d, "way"))
    /\ IsBool(Dget(d, "over_work"))
    /\ IsDict(Dget(d, "idx"))
    /\ "target" \in DOMAIN Dget(d, "idx")[2]

AdminResetPwdResp_ok(d) ==
    /\ IsBool(Dget(d, "ok"))
    /\ "msg" \in DOMAIN d => Dget(d, "msg") = None \/ ~IsInt(Dget(d, "msg"))
    /\ "idx" \in DOMAIN d => Dget(d, "idx") = None \/ IsInt(Dget(d, "idx"))

\* AdminBulkIdxes.model_dump(): the three optional lists default to []
idx_model_dump(r) ==
    [k \in {"target", "done", "no_work", "over_work"} |->
        IF k \in DOMAIN r THEN r[k] ELSE <<>>]

A200_get_all_user_records(b) ==
    IF ~b.json THEN <<None, Msg("AdminMsg.PARSING_JSON_FAIL"), None>>
    ELSE IF ~MultiRecordsLax_ok(b.d) THEN <<None, Msg("AdminMsg.FAIL_UNKNOWN"), None>>
    ELSE IF b.d.ok = PTrue
         THEN <<PTrue, Msg("AdminMsg.GET_RECORDS"), b.d.records>>
         ELSE <<PFalse, Msg("AdminMsg.FAIL_UNKNOWN"), None>>

A200_bulk_action(b) ==
    IF ~b.json THEN <<None, Msg("AdminMsg.PARSING_JSON_FAIL"), None>>
    ELSE IF ~AdminBulkResp_ok(b.d) THEN <<None, Msg("AdminMsg.FAIL_UNKNOWN"), None>>
    ELSE LET idx_dict == idx_model_dump(b.d.idx[2])
         IN  IF b.d.ok = PTrue
             THEN << PTrue,
                     <<"AdminMsg.BULK_SUCCESS", b.d.key, b.d.way,
                       idx_dict.target, idx_dict.done, idx_dict.no_work>>,
                     Dict(idx_dict) >>
             ELSE << PFalse,
                     <<"AdminMsg.BULK_FAIL", b.d.key, b.d.way,
                       idx_dict.target, idx_dict.over_work>>,
                     Dict(idx_dict) >>

A200_modify_single_password(b) ==
    IF ~b.json THEN <<None, Msg("AdminMsg.PARSING_JSON_FAIL"), None>>
    ELSE IF ~AdminResetPwdResp_ok(b.d) THEN <<None, Msg("AdminMsg.FAIL_UNKNOWN"), None>>
    ELSE <<b.d.ok, Dget(b.d, "msg"), Dget(b.d, "idx")>>

----------------------------------------------------------------------------
(* api/p9_admin.py: the client functions.  idxes is a list of integers,    *)
(* idx an integer (0 is falsy), new_pwd a text.                            *)

get_all_user_records(resp) ==
    APIResponseHandler_run("AdminAPIKeys.GET_ALL_USERS", A200_get_all_user_records,
        [call |-> PTrue], resp)

\* a mutated client function: the empty-list guard is gone
modify_bulk_signup_noguard(idxes, way, resp) ==
    APIResponseHandler_run("AdminAPIKeys.BULK_SIGNUP", A200_bulk_action,
        [call |-> PTrue, idxes |-> idxes, way |-> way], resp)

modify_bulk_signup(idxes, way, resp) ==
    IF idxes = <<>> THEN NoRequest(None, Msg("AdminMsg.NO_IDX_ENTER"), None)
    ELSE APIResponseHandler_run("AdminAPIKeys.BULK_SIGNUP", A200_bulk_action,
            [call |-> PTrue, idxes |-> idxes, way |-> way], resp)

modify_bulk_block(idxes, way, resp) ==
    IF idxes = <<>> THEN NoRequest(None, Msg("AdminMsg.NO_IDX_ENTER"), None)
    ELSE APIResponseHandler_run("AdminAPIKeys.BULK_BLOCK", A200_bulk_action,
            [call |-> PTrue, idxes |-> idxes, way |-> way], resp)

modify_bulk_delete(idxes, resp) ==
    IF idxes = <<>> THEN NoRequest(None, Msg("AdminMsg.NO_IDX_ENTER"), None)
    ELSE APIResponseHandler_run("AdminAPIKeys.BULK_DELETE", A200_bulk_action,
            [call |-> PTrue, idxes |-> idxes], resp)

modify_single_password(idx, new_pwd, resp) ==
    IF idx = 0 THEN NoRequest(None, Msg("AdminMsg.NO_IDX_ENTER"), None)
    ELSE IF new_pwd = <<>> THEN NoRequest(None, Msg("AdminMsg.NOT_ENTER_PWD"), None)
    ELSE APIResponseHandler_run("AdminAPIKeys.SINGLE_RESET_PWD",
            A200_modify_single_password,
            [call |-> PTrue, idx |-> idx, new_pwd |-> new_pwd], resp)

----------------------------------------------------------------------------
(* The initial state: a fresh browser session, no page script has run yet. *)

GenIdle == [on |-> FALSE, chunks |-> <<>>, out |-> <<>>]
NoDialog == [open |-> FALSE, idxes |-> <<>>]
NoCall == [fn |-> "none", args |-> <<>>, resp |-> NetErr]
LockKeys == {SK_USER_ID, SK_KTR_ID, SK_EMAIL}
NoChecked == [k \in LockKeys |-> None]

Init ==
    /\ ss = [k \in SessionKeys |-> Absent]
    /\ page = "none"
    /\ rendered = [ui |-> "none", shown |-> {}]
    /\ rerun = FALSE
    /\ sent = {}
    /\ ret = NoRet
    /\ gen = GenIdle
    /\ dialog = NoDialog
    /\ call = NoCall
    /\ checked = NoChecked

----------------------------------------------------------------------------
(* Direct calls of the API client functions, with the arguments and the   *)
(* backend's answer drawn from small sets.                                 *)

\* an optional text argument: None, "" or a value
OptTexts == << None, <<>>, <<"a">> >>
Texts == << <<>>, <<"a">> >>

\* answers that do not depend on the endpoint
CommonResps ==
    << NetErr, Status(PFalse), Status(None), Ok2xx(NotJson),
       Ok2xx(Json([ok |-> PFalse])), Ok2xx(Json([msg |-> <<"m">>])) >>

LoginResps ==
    CommonResps \o
    << Ok2xx(Json([ok |-> PTrue, user_name |-> <<"n">>, ktr_id |-> <<"k">>,
                   email |-> <<"e">>, developer |-> PFalse, admin |-> PTrue])),
       Ok2xx(Json([ok |-> PTrue, user_name |-> <<"n">>])) >>

UniqueKeyResps ==
    CommonResps \o
    << Ok2xx(Json([ok |-> PTrue, key |-> <<"user_id">>, exists |-> PTrue,
                   msg |-> <<"m">>])),
       Ok2xx(Json([ok |-> PTrue, key |-> <<"email">>, exists |-> PFalse,
                   msg |-> <<"m">>])),
       Ok2xx(Json([ok |-> PTrue, key |-> <<"email">>])) >>

AddUserResps ==
    CommonResps \o
    << Ok2xx(Json([ok |-> PTrue, idx |-> JInt(3)])),
       Ok2xx(Json([ok |-> PTrue, idx |-> <<"3">>])),
       Ok2xx(Json([ok |-> PTrue])) >>

SelfBlockResps ==
    CommonResps \o
    << Ok2xx(Json([ok |-> PTrue, idx |-> JInt(3)])), Ok2xx(Json([ok |-> PTrue])) >>

SelfUpdateResps ==
    CommonResps \o
    << Ok2xx(Json([ok |-> PTrue, user_name |-> <<"n">>, email |-> None])),
       Ok2xx(Json([ok |-> PTrue, user_name |-> <<"n">>])) >>

Called(fn, args, resp, out) ==
    /\ call' = [fn |-> fn, args |-> args, resp |-> resp]
    /\ sent' = out.req
    /\ ret' = out.ret
    /\ UNCHANGED <<ss, page, rendered, rerun, gen, dialog, checked>>

CallVerifyLogin ==
    /\ page = "none"
    /\ \E i \in 1..Len(Texts), j \in 1..Len(Texts), r \in 1..Len(LoginResps) :
           Called("verify_login", <<Texts[i], Texts[j]>>, LoginResps[r],
                  verify_login(Texts[i], Texts[j], LoginResps[r]))

CallVerifyUniqueKey ==
    /\ page = "none"
    /\ \E i \in 1..Len(OptTexts), j \in 1..Len(OptTexts), k \in 1..Len(OptTexts),
          r \in 1..Len(UniqueKeyResps) :
           Called("verify_unique_key", <<OptTexts[i], OptTexts[j], OptTexts[k]>>,
                  UniqueKeyResps[r],
                  verify_unique_key(OptTexts[i], OptTexts[j], OptTexts[k],
                                    UniqueKeyResps[r]))

CallAddNewUser ==
    /\ page = "none"
    /\ \E i \in 1..Len(Texts), dev \in {PTrue, PFalse}, r \in 1..Len(AddUserResps) :
           Called("add_new_user", <<Texts[i], dev>>, AddUserResps[r],
                  add_new_user(Texts[i], <<"1">>, <<"e">>, <<"p">>, <<"p">>, <<"n">>,
                               dev, None, AddUserResps[r]))

CallSelfBlock ==
    /\ page = "none"
    /\ \E i \in 1..Len(Texts), j \in 1..Len(Texts), r \in 1..Len(SelfBlockResps) :
           Called("self_block", <<Texts[i], Texts[j]>>, SelfBlockResps[r],
                  self_block(Texts[i], Texts[j], SelfBlockResps[r]))

CallSelfUpdate ==
    /\ page = "none"
    /\ \E i \in 1..Len(Texts), j \in 1..Len(OptTexts), r \in 1..Len(SelfUpdateResps) :
           Called("self_update", <<Texts[i], OptTexts[j]>>, SelfUpdateResps[r],
                  self_update(<<"u">>, Texts[i], OptTexts[j], None, None, None, None,
                              SelfUpdateResps[r]))

----------------------------------------------------------------------------
(* utils/p9_df_handler.py: the table pipeline.  A fetched record is a      *)
(* function from column names to values; the DataFrame built from a list   *)
(* of records has the union of their keys as columns.  A row of the result *)
(* table keeps the columns the console works with:                         *)
(*   idx (zero-padded text), ID (text), signup = "승인여부",                *)
(*   block = "정지여부", role = "권한".                                     *)

ExpectedCols ==
    {"user_id", "ktr_id", "user_name", "email", "developer", "admin", "signup",
     "idx", "created_at", "updated_at", "signup_at", "deleted_at"}

Columns(records) == UNION {DOMAIN records[i] : i \in 1..Len(records)}

NoError == <<"ok">>
KeyError(kind, cols) == <<"KeyError", kind, cols>>

\* Checker.user_record_column_names: the exception it raises, or NoError
user_record_column_names(records) ==
    LET missing_column == ExpectedCols \ Columns(records)
        extra_column == Columns(records) \ ExpectedCols
    IN  IF missing_column # {} THEN KeyError("missing", missing_column)
        ELSE IF extra_column # {} THEN KeyError("extra", extra_column)
        ELSE NoError

ROLE_COL_DICT == [user |-> 0, developer |-> 1, admin |-> 9]

\* FormatHandler._get_role_column_list: the columns with a non-zero weight
role_columns ==
    SelectSeq(<<"user", "developer", "admin">>, LAMBDA c : ROLE_COL_DICT[c] # 0)

\* _make_role_number_column: np.where(s, weight, 0)
role_num(r, column) == IF Truthy(r[column]) THEN ROLE_COL_DICT[column] ELSE 0

\* _plus_role_number_columns: the first two role columns are added
role_total(r) == role_num(r, role_columns[1]) + role_num(r, role_columns[2])

\* a mutated label rule: the admin label needs the sum to be exactly 9
role_string_exact(total) ==
    IF total = 0 THEN "user" ELSE IF total = 9 THEN "admin" ELSE "developer"

\* _total_role_number_convert_to_string
role_string(total) ==
    IF total = 0 THEN "user" ELSE IF total = 1 THEN "developer" ELSE "admin"

role_handler(r) == role_string(role_total(r))

\* str() of a natural number, as the sequence of its digits
Digit(d) == CASE d = 0 -> "0" [] d = 1 -> "1" [] d = 2 -> "2" [] d = 3 -> "3"
              [] d = 4 -> "4" [] d = 5 -> "5" [] d = 6 -> "6" [] d = 7 -> "7"
              [] d = 8 -> "8" [] d = 9 -> "9"
RECURSIVE IntStr(_)
IntStr(n) == IF n < 10 THEN <<Digit(n)>> ELSE Append(IntStr(n \div 10), Digit(n % 10))

\* str.zfill(width)
RECURSIVE zfill(_, _)
zfill(t, width) == IF Len(t) >= width THEN t ELSE zfill(<<"0">> \o t, width)

\* int() of a text of decimal digits
DigitVal(c) == CHOOSE d \in 0..9 : Digit(d) = c
RECURSIVE int(_)
int(t) == IF Len(t) = 1 THEN DigitVal(t[1])
          ELSE 10 * int(SubSeq(t, 1, Len(t) - 1)) + DigitVal(t[Len(t)])

\* astype('str') of a bool / None cell
Str(v) == CASE v = PTrue -> "True" [] v = PFalse -> "False" [] v = None -> "None"

SeqMax(ns) == CHOOSE m \in {ns[i] : i \in 1..Len(ns)} :
                  \A i \in 1..Len(ns) : ns[i] <= m

\* _all_process after the column check: time handling (정지여부 is
\* "deleted_at is not null"), role handling, the merge on idx, and
\* df_final_cleaner (rename, everything to str, idx zero-padded to the
\* number of digits of the largest idx)
all_process_rows(records) ==
    LET idx_max_size == Len(IntStr(SeqMax([i \in 1..Len(records) |-> records[i].idx])))
    IN  [i \in 1..Len(records) |->
            [idx    |-> zfill(IntStr(records[i].idx), idx_max_size),
             ID     |-> records[i].user_id,
             signup |-> Str(records[i].signup),
             block  |-> Str(IF records[i].deleted_at = None THEN PFalse ELSE PTrue),
             role   |-> role_handler(records[i])]]

Filter(df, Test(_)) == SelectSeq(df, Test)
ColIdx(df) == [i \in 1..Len(df) |-> df[i].idx]

\* UserTable._key_idxes_add_to_session
key_idxes_add_to_session(s, df) ==
    Put(Put(s, ADMIN_IDX_LIST, ColIdx(Filter(df, LAMBDA r : r.role = "admin"))),
        BLOCK_IDX_LIST, ColIdx(Filter(df, LAMBDA r : r.block = "True")))

\* a DataFrame as a session value
DF(rows) == <<"df", rows>>
IsDF(v) == Len(v) = 2 /\ v[1] = "df"
Rows(v) == v[2]

\* `not records` for the data of get_all_user_records (None or a list)
NoRecords(records) == ~IsList(records) \/ records[2] = <<>>

\* UserTable._all_process inside the try/except of UserTable.all, for the
\* answer out of get_all_user_records; failed is what a failed column check
\* is turned into
all_process_guarded(s, out, failed) ==
    LET mask == out.ret[1]
        msg == out.ret[2]
        records == out.ret[3]
    IN  IF ~Truthy(mask) \/ NoRecords(records)
        THEN [req |-> out.req, ss |-> s, ret |-> <<mask, msg, None>>]
        ELSE IF user_record_column_names(records[2]) # NoError
        THEN [req |-> out.req, ss |-> s, ret |-> failed]
        ELSE [req |-> out.req,
              ss |-> key_idxes_add_to_session(s, all_process_rows(records[2])),
              ret |-> <<mask, msg, DF(all_process_rows(records[2]))>>]

\* a mutated UserTable.all: a failed column check yields an empty table
UserTable_all_swallow(s, resp) ==
    all_process_guarded(s, get_all_user_records(resp), <<PTrue, None, DF(<<>>)>>)

\* AdminMsg.DATA_HANDLING_FAIL.format(e=e): the template filled with the
\* text of the exception
DATA_HANDLING_FAIL(e) == <<"AdminMsg.DATA_HANDLING_FAIL", e>>

\* UserTable.all: fetch, guard, _all_process inside try/except; the message
\* of a failure carries the text of the exception
UserTable_all_of(s, out) ==
    all_process_guarded(s, out,
        <<PFalse, DATA_HANDLING_FAIL(user_record_column_names(out.ret[3][2])), None>>)

UserTable_all(s, resp) == UserTable_all_of(s, get_all_user_records(resp))

\* GetTable.base: [ss, req, ret of UserTable.all, errors shown by st.error,
\* crashed].  With mask
\* truthy and df None (an empty record list) TABLE_ALL is stored as None and
\* the first filter raises TypeError.
GetTable_base_store(r) ==
    LET mask == r.ret[1]
        df == r.ret[3]
        rows == Rows(df)
        s1 == Put(r.ss, TABLE_ALL, df)
        s2 == Put(s1, TABLE_SIGNUP, DF(Filter(rows, LAMBDA x : x.signup = "False")))
        s3 == Put(s2, TABLE_BLOCK, DF(Filter(rows, LAMBDA x : x.block = "True")))
        s4 == Put(s3, TABLE_DEVELOPER, DF(Filter(rows, LAMBDA x : x.role = "developer")))
        s5 == Put(s4, TABLE_CLAER, DF(<<>>))
    IN  IF ~Truthy(mask)
        THEN [req |-> r.req, ret |-> r.ret, ss |-> r.ss, errors |-> {r.ret[2]},
              crashed |-> FALSE]
        ELSE IF ~IsDF(df)
        THEN [req |-> r.req, ret |-> r.ret, ss |-> s1, errors |-> {}, crashed |-> TRUE]
        ELSE [req |-> r.req, ret |-> r.ret, ss |-> s5, errors |-> {}, crashed |-> FALSE]

GetTable_base(s, resp) == GetTable_base_store(UserTable_all(s, resp))

\* GetTable.one_user
GetTable_one_user(s, user_id) ==
    IF ~Has(s, TABLE_ALL)
    THEN [ss |-> s, errors |-> {Msg("DB_FIRST")}, crashed |-> FALSE]
    ELSE IF ~IsDF(Get(s, TABLE_ALL))
    THEN [ss |-> s, errors |-> {}, crashed |-> TRUE]
    ELSE [ss |-> Put(s, TABLE_USER_ID,
                     DF(Filter(Rows(Get(s, TABLE_ALL)), LAMBDA x : x.ID = user_id))),
          errors |-> {}, crashed |-> FALSE]

----------------------------------------------------------------------------
(* Script runs.  Every step of the UI is one run of a page script: a plain *)
(* run (navigation, refresh, the run st.rerun() asks for) or a run         *)
(* triggered by a widget of the UI the previous run rendered.              *)

\* the locks that are true after a run
Locked(s) == {k \in LockKeys : Has(s, k) /\ Truthy(Get(s, k))}

\* a script run that ends with session s; chk is the text a duplicate check
\* of this run was made for (None for the keys that were not checked)
RunChecked(p, s, r, shown, rr, q, rt, chk) ==
    /\ page' = p
    /\ ss' = s
    /\ rendered' = [ui |-> r, shown |-> shown]
    /\ rerun' = rr
    /\ sent' = q
    /\ ret' = rt
    /\ call' = NoCall
    /\ checked' = [k \in LockKeys |->
                      IF k \notin Locked(s) THEN None
                      ELSE IF chk[k] # None THEN chk[k] ELSE checked[k]]

RunShown(p, s, r, shown, rr, q, rt) == RunChecked(p, s, r, shown, rr, q, rt, NoChecked)

Run(p, s, r, rr, q, rt) == RunShown(p, s, r, {}, rr, q, rt)

\* a plain run of page p is possible: a pending st.rerun() reruns the same
\* page; the delete dialog is modal
Load(p) == (rerun => page = p) /\ ~dialog.open

\* a widget of component r on page p can be used
Click(p, r) == page = p /\ rendered.ui = r /\ ~rerun /\ ~gen.on /\ ~dialog.open

Idle == gen' = GenIdle /\ dialog' = NoDialog

LoggedIn(s) == Truthy(Get(s, LOGGED_IN))

----------------------------------------------------------------------------
(* pages/1_Login.py with routes/p1_login_before.py, p1_login_after.py      *)

\* the component the login page shows for a session
LoginComponent(s) ==
    LET view == Get(s, LOGIN_VIEW)
    IN  IF LoggedIn(s)
        THEN CASE view = LOGIN_AFTER -> "AfterLogin"
               [] view = EDIT -> "Edit"
               [] OTHER -> "SoftDelete"
        ELSE CASE view = LOGIN_BEFORE -> "BeforeLogin"
               [] view = PERSONAL_INFO_AGREE -> "ShowPersonalInfoAgree"
               [] view = LOST_PASSWORD -> "LostPassword"
               [] OTHER -> "SignUp"

\* a mutated page script: no view resets the locks
LoginLocks_keep(s, component) == keys_rock(s)

\* the lock handling a component does when it is rendered to the end
LoginLocks(s, component) ==
    IF component \in {"Edit", "SignUp"} THEN keys_rock(s) ELSE keys_rock_init(s)

\* a mutated view_changer: the signup button leads to the lost_password view
view_changer_lost(s, view_name) ==
    Put(s, LOGIN_VIEW, IF view_name = SIGN_UP THEN LOST_PASSWORD ELSE view_name)

\* view_changer of utils/p1_login.py: set the view, st.rerun()
view_changer(s, view_name) == Put(s, LOGIN_VIEW, view_name)

RunLogin ==
    /\ Load("login")
    /\ LET s0 == PageHead(ss)
       IN  Run("login", LoginLocks(s0, LoginComponent(s0)), LoginComponent(s0),
               FALSE, {}, NoRet)
    /\ Idle

\* schema/p1_login.py: UserId and Password of the UserLogin model
IdChars == {"a", "d", "m", "n", "u", "s", "e", "r", "1", "2", "_", "-"}
PwdChars == IdChars \cup {"p", "w", "o", "!", "#"}
UserId_ok(t) == Len(t) >= 4 /\ Len(t) <= 20 /\ \A i \in 1..Len(t) : t[i] \in IdChars
Password_ok(t) == Len(t) >= 12 /\ Len(t) <= 64 /\ \A i \in 1..Len(t) : t[i] \in PwdChars

\* a mutated check: the formats are not looked at
user_login_fe_error_msg_noformat(user_id, password) ==
    IF user_id = <<>> THEN Msg("LoginMsg.ID_NULL")
    ELSE IF password = <<>> THEN Msg("LoginMsg.PWD_NULL")
    ELSE None

\* BeforeLogin._user_login_fe_error_msg
user_login_fe_error_msg(user_id, password) ==
    IF user_id = <<>> THEN Msg("LoginMsg.ID_NULL")
    ELSE IF password = <<>> THEN Msg("LoginMsg.PWD_NULL")
    ELSE IF ~(UserId_ok(user_id) /\ Password_ok(password))
    THEN Msg("LoginMsg.ID_AND_PWD_WRONG")
    ELSE None

\* mutated session writes: the login flag is not set
login_success_noflag(s, user_id, values) ==
    LET s2 == Put(s, ID, user_id)
        s3 == Put(s2, IS_DEVELOPER, values.developer)
        s4 == Put(s3, IS_ADMIN, values.admin)
        s5 == Put(s4, USER_NAME, values.user_name)
        s6 == Put(s5, KTR_ID, values.ktr_id)
    IN  Put(s6, EMAIL, values.email)

\* the session writes of a successful login
login_success(s, user_id, values) ==
    LET s1 == Put(s, LOGGED_IN, PTrue)
        s2 == Put(s1, ID, user_id)
        s3 == Put(s2, IS_DEVELOPER, values.developer)
        s4 == Put(s3, IS_ADMIN, values.admin)
        s5 == Put(s4, USER_NAME, values.user_name)
        s6 == Put(s5, KTR_ID, values.ktr_id)
    IN  Put(s6, EMAIL, values.email)

LoginIds == << <<>>, <<"u", "s">>, <<"u", "s", "e", "r">>, <<"a", "d", "m", "n">> >>
LoginPwds == << <<>>, <<"p", "w">>,
                <<"p", "a", "s", "s", "w", "o", "r", "d", "1", "2", "1", "2">> >>

\* the login answers of the backend for an account
LoginAnswers ==
    << NetErr, Status(PFalse), Ok2xx(NotJson), Ok2xx(Json([ok |-> PFalse])),
       Ok2xx(Json([ok |-> PTrue, user_name |-> <<"n">>, ktr_id |-> <<"1">>,
                   email |-> <<"e">>, developer |-> PFalse, admin |-> PFalse])),
       Ok2xx(Json([ok |-> PTrue, user_name |-> <<"n">>, ktr_id |-> <<"1">>,
                   email |-> <<"e">>, developer |-> PTrue, admin |-> PTrue])),
       Ok2xx(Json([ok |-> PTrue, user_name |-> <<"n">>])) >>

\* BeforeLogin.UI, the login button: _login_action
Login ==
    /\ Click("login", "BeforeLogin")
    /\ \E i \in 1..Len(LoginIds), j \in 1..Len(LoginPwds), a \in 1..Len(LoginAnswers) :
        LET s0 == PageHead(ss)
            user_id == LoginIds[i]
            pwd == LoginPwds[j]
            msg == user_login_fe_error_msg(user_id, pwd)
            out == verify_login(user_id, pwd, LoginAnswers[a])
        IN  IF msg # None
            THEN RunShown("login", keys_rock_init(s0), "BeforeLogin", {msg},
                          FALSE, {}, NoRet)
            ELSE IF IsRaised(out.ret)
            THEN Run("login", s0, "exception", FALSE, out.req, out.ret)
            ELSE IF Truthy(out.ret[1])
            THEN Run("login",
                     view_changer(login_success(s0, user_id, out.ret[3][2]), LOGIN_AFTER),
                     "BeforeLogin", TRUE, out.req, out.ret)
            ELSE RunShown("login", keys_rock_init(s0), "BeforeLogin", {out.ret[2]},
                          FALSE, out.req, out.ret)
    /\ Idle

\* a button whose handler is view_changer(view); the button exists in the
\* run only when the run renders its component
ViewButton(component, view) ==
    /\ Click("login", component)
    /\ LoginComponent(PageHead(ss)) = component
    /\ LET s0 == PageHead(ss)
           s1 == CASE component \in {"Edit", "SignUp"} -> keys_rock(s0)
                   [] component = "ShowPersonalInfoAgree" -> keys_rock_init(s0)
                   [] OTHER -> s0
       IN  Run("login", view_changer(s1, view), component, TRUE, {}, NoRet)
    /\ Idle

GoSignUp == ViewButton("BeforeLogin", SIGN_UP)
SignUpShowAgree == ViewButton("SignUp", PERSONAL_INFO_AGREE)
SignUpGoBack == ViewButton("SignUp", LOGIN_BEFORE)
AgreeGoBack == ViewButton("ShowPersonalInfoAgree", SIGN_UP)
GoEdit == ViewButton("AfterLogin", EDIT)
EditGoBack == ViewButton("Edit", LOGIN_AFTER)
EditGoSoftDelete == ViewButton("Edit", SOFT_DELETE)
SoftDeleteGoBack == ViewButton("SoftDelete", EDIT)

\* AfterLogin.UI, the logout button
Logout ==
    /\ Click("login", "AfterLogin")
    /\ Run("login", view_changer(init_session(PageHead(ss), TRUE), LOGIN_BEFORE),
           "AfterLogin", TRUE, {}, NoRet)
    /\ Idle

----------------------------------------------------------------------------
(* pages/2_KHA_chat.py, 5_Dashboard.py, 4_PANCDR.py: the login guard       *)

\* a mutated guard: the main UI whatever the login flag
GuardedPage_open(s, main) ==
    [ss |-> Put(s, LOGIN_VIEW, LOGIN_AFTER), rendered |-> main]

\* the component a guarded page shows, and the login view it leaves behind
GuardedPage(s, main) ==
    IF ~LoggedIn(s)
    THEN [ss |-> Put(s, LOGIN_VIEW, LOGIN_BEFORE), rendered |-> "GoLogin"]
    ELSE [ss |-> Put(s, LOGIN_VIEW, LOGIN_AFTER), rendered |-> main]

RunDashboard ==
    /\ Load("dashboard")
    /\ LET g == GuardedPage(PageHead(ss), "Dashboard")
       IN  Run("dashboard", g.ss, g.rendered, FALSE, {}, NoRet)
    /\ Idle

RunPancdr ==
    /\ Load("pancdr")
    /\ LET g == GuardedPage(PageHead(ss), "Pancdr")
       IN  Run("pancdr", g.ss, g.rendered, FALSE, {}, NoRet)
    /\ Idle

----------------------------------------------------------------------------
(* routes/p2_chat.py, utils/p2_chat.py, api/p2_chat.py                     *)

MaxMsgs == 4

Message(role, content) == [role |-> role, content |-> content]

\* str.strip() for texts over letters and blanks
RECURSIVE lstrip(_)
lstrip(t) == IF t # <<>> /\ Head(t) = " " THEN lstrip(Tail(t)) ELSE t
RECURSIVE rstrip(_)
rstrip(t) == IF t # <<>> /\ t[Len(t)] = " " THEN rstrip(SubSeq(t, 1, Len(t) - 1)) ELSE t
\* a mutated strip: blanks are kept
strip_keep(t) == t

strip(t) == rstrip(lstrip(t))

\* what the backend streams for one request: the text SSEConverter.sse_to_txt
\* extracts from each chunk ("" for a chunk without text); "!" stands for the
\* error text yielded on a RequestException, which ends the stream
Streams ==
    << <<>>, << <<"a">> >>, << <<" ">> >>, << <<>>, <<"a">> >>,
       << <<"a">>, <<"b">> >>, << <<"!">> >>, << <<"a">>, <<"!">> >> >>

\* the run of the chat page while no answer is pending
RunChat ==
    /\ Load("chat")
    /\ LET g == GuardedPage(PageHead(ss), "Chat")
       IN  /\ ~(LoggedIn(g.ss) /\ Truthy(Get(g.ss, STREAMING)))
           /\ Run("chat", g.ss, g.rendered, FALSE, {}, NoRet)
    /\ Idle

\* SideBar.models_dropbox: another model is selected
SelectModel ==
    /\ Click("chat", "Chat")
    /\ \E i \in 1..Len(BackendModelList) :
        LET g == GuardedPage(PageHead(ss), "Chat")
            selected == BackendModelList[i]
        IN  /\ selected # Get(g.ss, MODEL)
            /\ Run("chat", Put(Put(g.ss, MODEL, selected), MODEL_IDX, i - 1),
                   "Chat", FALSE, {}, NoRet)
    /\ Idle

\* SideBar.clear
ClearChat ==
    /\ Click("chat", "Chat")
    /\ LET g == GuardedPage(PageHead(ss), "Chat")
       IN  Run("chat", Put(g.ss, MESSAGE, <<>>), "Chat", TRUE, {}, NoRet)
    /\ Idle

\* TxtBar.user_input
UserInput ==
    /\ Click("chat", "Chat")
    /\ Len(Get(ss, MESSAGE)) + 2 <= MaxMsgs
    /\ LET g == GuardedPage(PageHead(ss), "Chat")
           s1 == Put(g.ss, MESSAGE, Append(Get(g.ss, MESSAGE), Message("user", <<"h">>)))
       IN  Run("chat", Put(s1, STREAMING, PTrue), "Chat", TRUE, {}, NoRet)
    /\ Idle

\* Response.main up to st.write_stream: the request is sent, the generator
\* streaming_response starts
StartStream ==
    /\ Load("chat")
    /\ \E i \in 1..Len(Streams) :
        LET g == GuardedPage(PageHead(ss), "Chat")
            current_msg == Get(g.ss, MESSAGE)[Len(Get(g.ss, MESSAGE))]
            payload == [txt |-> None, role |-> current_msg.role,
                        content |-> current_msg.content,
                        model_name |-> Get(g.ss, MODEL)]
        IN  /\ LoggedIn(g.ss) /\ Truthy(Get(g.ss, STREAMING))
            /\ Run("chat", g.ss, "Chat", FALSE,
                   {Request("ChatAPIKeys.CHAT", payload)}, NoRet)
            /\ gen' = [on |-> TRUE, chunks |-> Streams[i], out |-> <<>>]
    /\ dialog' = NoDialog

\* streaming_response: one turn of the loop over the chunks
StreamStep ==
    /\ gen.on /\ gen.chunks # <<>>
    /\ LET txt == Head(gen.chunks)
       IN  gen' = [on |-> TRUE, chunks |-> Tail(gen.chunks),
                   out |-> IF txt # <<>> THEN gen.out \o txt ELSE gen.out]
    /\ UNCHANGED <<ss, page, rendered, rerun, sent, ret, dialog, call, checked>>

\* a mutated Response.main: the response is saved, the flags are left as
\* they are
StreamEnd_noreset ==
    /\ gen.on /\ gen.chunks = <<>>
    /\ LET full_response == gen.out
           s1 == IF strip(full_response) # <<>>
                 THEN Put(ss, MESSAGE,
                          Append(Get(ss, MESSAGE), Message("assistant", full_response)))
                 ELSE ss
       IN  Run("chat", s1, "Chat", TRUE, sent, ret)
    /\ Idle

\* Response.main after st.write_stream returned the full response
StreamEnd ==
    /\ gen.on /\ gen.chunks = <<>>
    /\ LET full_response == gen.out
           s1 == IF strip(full_response) # <<>>
                 THEN Put(ss, MESSAGE,
                          Append(Get(ss, MESSAGE), Message("assistant", full_response)))
                 ELSE ss
       IN  Run("chat", Put(Put(s1, STREAMING, PFalse), STOP_STREAM, PFalse),
               "Chat", TRUE, sent, ret)
    /\ Idle

----------------------------------------------------------------------------
(* utils/utils.py: Flash                                                   *)

FLASH_LIFE == 1

Flash_push(s, level, msg) ==
    Put(s, FLASH_ADMIN_TABLE, [level |-> level, msg |-> msg, life |-> FLASH_LIFE])

\* Flash.render: pop, show, count down, store again while life is left
Flash_render(s) ==
    IF ~Has(s, FLASH_ADMIN_TABLE) THEN [ss |-> s, shown |-> {}]
    ELSE LET data == Get(s, FLASH_ADMIN_TABLE)
             left == data.life - 1
         IN  [ss |-> IF left > 0
                     THEN Put(s, FLASH_ADMIN_TABLE, [data EXCEPT !.life = left])
                     ELSE Pop(s, FLASH_ADMIN_TABLE),
              shown |-> {data.msg}]

----------------------------------------------------------------------------
(* utils/p9_admin.py: SideBarAction                                        *)

ToSet(seq) == {seq[i] : i \in 1..Len(seq)}
GetOr(s, k, default) == IF Has(s, k) THEN Get(s, k) ELSE default

Refused(msg) == [ok |-> FALSE, crashed |-> FALSE, msg |-> msg, idxes |-> <<>>]
Crashed == [ok |-> FALSE, crashed |-> TRUE, msg |-> None, idxes |-> <<>>]
Accepted(idxes) == [ok |-> TRUE, crashed |-> FALSE, msg |-> None, idxes |-> idxes]

\* SideBarAction._idxes_handler; set(None) raises when a list was never stored
idxes_handler(s, is_delete) ==
    LET idx_list == GetOr(s, INDEX_LIST, <<>>)
    IN  IF Len(idx_list) = 0 THEN Refused(Msg("AdminMsg.NO_IDX_ENTER"))
        ELSE IF ~Has(s, ADMIN_IDX_LIST) THEN Crashed
        ELSE IF ToSet(idx_list) \cap ToSet(Get(s, ADMIN_IDX_LIST)) # {}
        THEN Refused(Msg("AdminMsg.DEFENCE_ADMIN_MODIFY"))
        ELSE IF is_delete /\ ~Has(s, BLOCK_IDX_LIST) THEN Crashed
        ELSE IF is_delete /\ (ToSet(idx_list) \cap ToSet(Get(s, BLOCK_IDX_LIST))
                                # ToSet(idx_list))
        THEN Refused(Msg("AdminMsg.NOT_BLOCKED_USER_DELETE"))
        ELSE Accepted([i \in 1..Len(idx_list) |-> int(idx_list[i])])

\* SideBarAction._idx_handler
idx_handler(s) ==
    LET idx_list == GetOr(s, INDEX_LIST, <<>>)
    IN  IF Len(idx_list) = 0 THEN Refused(Msg("AdminMsg.NO_IDX_ENTER"))
        ELSE IF Len(idx_list) # 1 THEN Refused(Msg("AdminMsg.TOO_MUCH_IDX_ENTER"))
        ELSE IF ~Has(s, ADMIN_IDX_LIST) THEN Crashed
        ELSE IF idx_list[1] \in ToSet(Get(s, ADMIN_IDX_LIST))
        THEN Refused(Msg("AdminMsg.DEFENCE_ADMIN_MODIFY"))
        ELSE Accepted(<<int(idx_list[1])>>)

\* SideBarAction._password_checker: [pwd, msg]
password_checker(password) ==
    LET stripped == strip(password)
    IN  IF stripped = <<>> THEN [pwd |-> None, msg |-> Msg("AdminMsg.NOT_ENTER_PWD")]
        ELSE IF ~Password_ok(stripped)
        THEN [pwd |-> None, msg |-> Msg("AdminMsg.WRONG_FORMAT_PWD")]
        ELSE [pwd |-> stripped, msg |-> None]

\* the result of one run of the admin script
Outcome(s, ui, shown, rr, q, rt, dlg) ==
    [ss |-> s, ui |-> ui, shown |-> shown, rerun |-> rr, sent |-> q, ret |-> rt,
     dialog |-> dlg]

\* SideBarAction.after_modify: flash by mask, GetTable.base, selection reset,
\* st.rerun()
after_modify_reloaded(b, shown, q, rt) ==
    IF b.crashed
    THEN Outcome(b.ss, "exception", shown, FALSE, q \cup b.req, rt, NoDialog)
    ELSE Outcome(Put(b.ss, INDEX_LIST, <<>>), "AdminMain", shown \cup b.errors,
                 TRUE, q \cup b.req, rt, NoDialog)

after_modify(s, shown, mask, msg, q, rt, resp) ==
    LET level == IF mask = PTrue THEN "success"
                 ELSE IF mask = PFalse THEN "warning" ELSE "error"
    IN  after_modify_reloaded(GetTable_base(Flash_push(s, level, msg), resp),
                              shown, q, rt)

\* SideBarAction.interupt_flash_msg: warning flash, st.rerun()
interupt_flash_msg(s, shown, msg) ==
    Outcome(Flash_push(s, "warning", msg), "AdminMain", shown, TRUE, {}, NoRet, NoDialog)

----------------------------------------------------------------------------
(* pages/7_Admin.py and routes/p9_admin.py: Main.UI, SideBar.main          *)

TableOf(view) ==
    CASE view = V_ALL -> TABLE_ALL
      [] view = V_SIGNUP -> TABLE_SIGNUP
      [] view = V_BLOCK -> TABLE_BLOCK
      [] view = V_DEVELOPER -> TABLE_DEVELOPER
      [] view = V_USER_ID -> TABLE_USER_ID
      [] view = V_CLEAR -> TABLE_CLAER

\* the script up to the buttons: the login view, Flash.render, the default
\* of the admin view
AdminPre(s) ==
    LET f == Flash_render(Put(s, LOGIN_VIEW, LOGIN_AFTER))
    IN  [ss |-> IF Has(f.ss, ADMIN_VIEW) THEN f.ss ELSE Put(f.ss, ADMIN_VIEW, V_NONE),
         shown |-> f.shown]

\* the grid of the current view is on the screen
GridShown(s) ==
    /\ Has(s, ADMIN_VIEW) /\ Get(s, ADMIN_VIEW) # V_NONE
    /\ Has(s, TABLE_ALL)
    /\ Has(s, TableOf(Get(s, ADMIN_VIEW)))
    /\ IsDF(Get(s, TableOf(Get(s, ADMIN_VIEW))))

RECURSIVE PickIdx(_, _, _)
PickIdx(idxs, I, i) ==
    IF i > Len(idxs) THEN <<>>
    ELSE (IF i \in I THEN <<idxs[i]>> ELSE <<>>) \o PickIdx(idxs, I, i + 1)

\* the row selections the grid can report: the idx cells of any rows of the
\* table it shows
Selections(s) ==
    IF ~GridShown(s) THEN {<<>>}
    ELSE LET idxs == ColIdx(Rows(Get(s, TableOf(Get(s, ADMIN_VIEW)))))
         IN  {PickIdx(idxs, I, 1) : I \in SUBSET (1..Len(idxs))}

\* the rendering block of SideBar.main with ShowTable.rendering
ShowPhase(s, sel) ==
    IF Get(s, ADMIN_VIEW) = V_NONE THEN [ss |-> s, shown |-> {}, crashed |-> FALSE]
    ELSE LET s1 == Put(s, INDEX_LIST, <<>>)
             key == TableOf(Get(s, ADMIN_VIEW))
         IN  IF ~Has(s1, TABLE_ALL)
             THEN [ss |-> s1, shown |-> {Msg("DB_FIRST")}, crashed |-> FALSE]
             ELSE IF ~Has(s1, key) \/ ~IsDF(Get(s1, key))
             THEN [ss |-> s1, shown |-> {}, crashed |-> TRUE]
             ELSE [ss |-> IF sel # <<>> THEN Put(s1, INDEX_LIST, sel) ELSE s1,
                   shown |-> {}, crashed |-> FALSE]

Apply(o) ==
    /\ RunShown("admin", o.ss, o.ui, o.shown, o.rerun, o.sent, o.ret)
    /\ dialog' = o.dialog
    /\ gen' = GenIdle

\* the branch of the page script
AdminGuard(s) ==
    IF ~LoggedIn(s) THEN "GoLogin"
    ELSE IF Truthy(Get(s, IS_ADMIN)) THEN "AdminMain" ELSE "NoAdmin"

\* a run without a button: navigation, refresh, st.rerun()
RunAdmin ==
    /\ Load("admin")
    /\ LET s0 == PageHead(ss)
           pre == AdminPre(s0)
           show == ShowPhase(pre.ss, <<>>)
       IN  CASE AdminGuard(s0) = "GoLogin" ->
                  Apply(Outcome(Put(s0, LOGIN_VIEW, LOGIN_BEFORE), "GoLogin", {},
                                FALSE, {}, NoRet, NoDialog))
             [] AdminGuard(s0) = "NoAdmin" ->
                  Apply(Outcome(s0, "NoAdmin", {}, FALSE, {}, NoRet, NoDialog))
             [] AdminGuard(s0) = "AdminMain" ->
                  Apply(Outcome(show.ss,
                                IF show.crashed THEN "exception" ELSE "AdminMain",
                                pre.shown \cup show.shown, FALSE, {}, NoRet, NoDialog))

\* the grid reports a changed selection
AdminSelect ==
    /\ Click("admin", "AdminMain")
    /\ LET pre == AdminPre(PageHead(ss))
       IN  \E sel \in Selections(pre.ss) :
            /\ sel # <<>>
            /\ Apply(Outcome(ShowPhase(pre.ss, sel).ss, "AdminMain", pre.shown,
                             FALSE, {}, NoRet, NoDialog))

\* a record of the users table as the backend serialises it
UserRec(idx, user_id, developer, admin, signup, deleted_at) ==
    [user_id |-> user_id, ktr_id |-> <<"1">>, user_name |-> <<"n">>,
     email |-> <<"e">>, developer |-> developer, admin |-> admin,
     signup |-> signup, idx |-> idx, created_at |-> <<"t">>,
     updated_at |-> <<"t">>, signup_at |-> <<"t">>, deleted_at |-> deleted_at]

U5 == <<"u", "s", "e", "r">>
U9 == <<"a", "d", "m", "n">>
U10 == <<"u", "s", "e", "2">>

\* the users table at two moments: nine accounts with idx 9 the admin, and
\* later ten accounts with idx 5 promoted to admin and idx 10 blocked
UsersEarly == << UserRec(5, U5, PFalse, PFalse, PFalse, None),
                 UserRec(9, U9, PTrue, PTrue, PTrue, None) >>
UsersLate  == << UserRec(5, U5, PFalse, PTrue, PTrue, None),
                 UserRec(10, U10, PTrue, PFalse, PTrue, <<"t">>) >>

Without(r, c) == [k \in DOMAIN r \ {c} |-> r[k]]

Fetched(records) == Ok2xx(Json([ok |-> PTrue, records |-> List(records)]))

\* what the backend answers to get_all_user_records when the console asks
\* for the table, and when it reloads the table after a modification
FetchAnswers ==
    << NetErr, Fetched(<<>>), Fetched(<<Without(UsersEarly[1], "signup")>>),
       Fetched(UsersEarly), Fetched(UsersLate) >>
RefreshAnswers == << NetErr, Fetched(UsersEarly), Fetched(UsersLate) >>

BulkDone(key, way, idxes) ==
    Ok2xx(Json([ok |-> PTrue, key |-> key, way |-> way, over_work |-> PFalse,
                idx |-> Dict([target |-> idxes, done |-> idxes])]))

\* what the backend answers to a bulk request and to a password reset
BulkAnswers(key, way, idxes) == << Status(PFalse), BulkDone(key, way, idxes) >>
PwdAnswers(idx) ==
    << NetErr, Ok2xx(Json([ok |-> PTrue, msg |-> <<"m">>, idx |-> JInt(idx)])) >>

\* 'DB 조회' after GetTable.base gave b: view_changer(ALL)
f_search(b, shown) ==
    IF b.crashed
    THEN Outcome(b.ss, "exception", shown, FALSE, b.req, b.ret, NoDialog)
    ELSE Outcome(Put(b.ss, ADMIN_VIEW, V_ALL), "AdminMain", shown \cup b.errors,
                 TRUE, b.req, b.ret, NoDialog)

\* 'DB 조회': GetTable.base, view_changer(ALL)
AdminSearch ==
    /\ Click("admin", "AdminMain")
    /\ \E a \in 1..Len(FetchAnswers) :
        LET pre == AdminPre(PageHead(ss))
        IN  Apply(f_search(GetTable_base(pre.ss, FetchAnswers[a]), pre.shown))

\* the view buttons: view_changer(view)
AdminFilter ==
    /\ Click("admin", "AdminMain")
    /\ \E view \in {V_ALL, V_SIGNUP, V_BLOCK, V_DEVELOPER, V_CLEAR} :
        LET pre == AdminPre(PageHead(ss))
        IN  Apply(Outcome(Put(pre.ss, ADMIN_VIEW, view), "AdminMain", pre.shown,
                          TRUE, {}, NoRet, NoDialog))

\* the single-user search: GetTable.one_user, view_changer(USER_ID)
AdminUserId ==
    /\ Click("admin", "AdminMain")
    /\ \E user_id \in {U5, U9} :
        LET pre == AdminPre(PageHead(ss))
            o == GetTable_one_user(pre.ss, user_id)
        IN  IF o.crashed
            THEN Apply(Outcome(o.ss, "exception", pre.shown, FALSE, {}, NoRet, NoDialog))
            ELSE Apply(Outcome(Put(o.ss, ADMIN_VIEW, V_USER_ID), "AdminMain",
                               pre.shown \cup o.errors, TRUE, {}, NoRet, NoDialog))

\* the script of an action button up to the handler: [ss, shown, crashed]
ActionPre(s, sel) ==
    LET pre == AdminPre(PageHead(s))
        show == ShowPhase(pre.ss, sel)
    IN  [ss |-> show.ss, shown |-> pre.shown \cup show.shown, crashed |-> show.crashed]

CrashOutcome(a) == Outcome(a.ss, "exception", a.shown, FALSE, {}, NoRet, NoDialog)

\* a run of the script with the button of SideBarAction.signup(way) pressed
\* while the grid reports the selection sel
Handled(a, h, out, resp) ==
    IF a.crashed \/ h.crashed THEN Apply(CrashOutcome(a))
    ELSE IF ~h.ok THEN Apply(interupt_flash_msg(a.ss, a.shown, h.msg))
    ELSE Apply(after_modify(a.ss, a.shown, out.ret[1], out.ret[2], out.req,
                            out.ret, resp))

signup_checked(a, h, way, f, m) ==
    Handled(a, h,
            modify_bulk_signup(h.idxes, way, BulkAnswers(<<"signup">>, way, h.idxes)[m]),
            RefreshAnswers[f])

SideBarAction_signup(sel) ==
    \E way \in {PTrue, PFalse},
       f \in 1..Len(RefreshAnswers), m \in 1..Len(BulkAnswers(<<>>, PTrue, <<>>)) :
        LET a == ActionPre(ss, sel)
        IN  signup_checked(a, idxes_handler(a.ss, FALSE), way, f, m)

AdminSignup ==
    /\ Click("admin", "AdminMain")
    /\ \E sel \in Selections(AdminPre(PageHead(ss)).ss) : SideBarAction_signup(sel)

\* the same with the button of SideBarAction.block(way)
block_checked(a, h, way, f, m) ==
    Handled(a, h,
            modify_bulk_block(h.idxes, way, BulkAnswers(<<"block">>, way, h.idxes)[m]),
            RefreshAnswers[f])

SideBarAction_block(sel) ==
    \E way \in {PTrue, PFalse},
       f \in 1..Len(RefreshAnswers), m \in 1..Len(BulkAnswers(<<>>, PTrue, <<>>)) :
        LET a == ActionPre(ss, sel)
        IN  block_checked(a, idxes_handler(a.ss, FALSE), way, f, m)

AdminBlock ==
    /\ Click("admin", "AdminMain")
    /\ \E sel \in Selections(AdminPre(PageHead(ss)).ss) : SideBarAction_block(sel)

\* SideBarAction.delete: the checks, then the confirmation dialog opens
delete_checked(a, h) ==
    IF a.crashed \/ h.crashed THEN Apply(CrashOutcome(a))
    ELSE IF ~h.ok THEN Apply(interupt_flash_msg(a.ss, a.shown, h.msg))
    ELSE Apply(Outcome(IF Has(a.ss, DELETE_WAIT) THEN a.ss
                       ELSE Put(a.ss, DELETE_WAIT, PFalse),
                       "AdminMain", a.shown, FALSE, {}, NoRet,
                       [open |-> TRUE, idxes |-> h.idxes]))

SideBarAction_delete(sel) ==
    LET a == ActionPre(ss, sel)
    IN  delete_checked(a, idxes_handler(a.ss, TRUE))

AdminDelete ==
    /\ Click("admin", "AdminMain")
    /\ \E sel \in Selections(AdminPre(PageHead(ss)).ss) : SideBarAction_delete(sel)

\* delete_confirm_dialog, '취소'
DialogCancel ==
    /\ dialog.open /\ page = "admin"
    /\ Apply(interupt_flash_msg(ss, {}, Msg("AdminMsg.CANCEL_MODIFY")))

delete_confirmed(out, resp) ==
    Apply(after_modify(Put(ss, DELETE_WAIT, PFalse), {}, out.ret[1], out.ret[2],
                       out.req, out.ret, resp))

\* delete_confirm_dialog, '삭제': modify_bulk_delete, after_modify
DialogDelete ==
    /\ dialog.open /\ page = "admin"
    /\ \E f \in 1..Len(RefreshAnswers), m \in 1..Len(BulkAnswers(<<>>, PTrue, <<>>)) :
        delete_confirmed(modify_bulk_delete(dialog.idxes,
                            BulkAnswers(<<"delete">>, PTrue, dialog.idxes)[m]),
                         RefreshAnswers[f])

\* SideBarAction.modify_password(new_pwd)
password_checked(a, h, c, f, m) ==
    IF a.crashed \/ h.crashed THEN Apply(CrashOutcome(a))
    ELSE IF ~h.ok THEN Apply(interupt_flash_msg(a.ss, a.shown, h.msg))
    ELSE IF c.pwd = None THEN Apply(interupt_flash_msg(a.ss, a.shown, c.msg))
    ELSE Handled(a, h,
                 modify_single_password(h.idxes[1], c.pwd, PwdAnswers(h.idxes[1])[m]),
                 RefreshAnswers[f])

SideBarAction_modify_password(sel) ==
    \E j \in 1..Len(LoginPwds),
       f \in 1..Len(RefreshAnswers), m \in 1..Len(PwdAnswers(0)) :
        LET a == ActionPre(ss, sel)
        IN  password_checked(a, idx_handler(a.ss), password_checker(LoginPwds[j]), f, m)

AdminPassword ==
    /\ Click("admin", "AdminMain")
    /\ \E sel \in Selections(AdminPre(PageHead(ss)).ss) :
           SideBarAction_modify_password(sel)

----------------------------------------------------------------------------
(* Direct calls of the admin API client functions                          *)

IdxLists == << <<>>, <<5>>, <<5, 9>> >>

ApiFetchAnswers ==
    CommonResps \o FetchAnswers \o << Ok2xx(Json([ok |-> PTrue])) >>
ApiBulkAnswers(key, way, idxes) ==
    CommonResps \o BulkAnswers(key, way, idxes) \o
    << Ok2xx(Json([ok |-> PFalse, key |-> key, way |-> way, over_work |-> PTrue,
                   idx |-> Dict([target |-> idxes, over_work |-> idxes])])) >>
ApiPwdAnswers(idx) ==
    CommonResps \o PwdAnswers(idx) \o << Ok2xx(Json([ok |-> PTrue, idx |-> <<"x">>])) >>

CallGetAllUserRecords ==
    /\ page = "none"
    /\ \E a \in 1..Len(ApiFetchAnswers) :
           Called("get_all_user_records", <<>>, ApiFetchAnswers[a],
                  get_all_user_records(ApiFetchAnswers[a]))

CallBulkSignup ==
    /\ page = "none"
    /\ \E i \in 1..Len(IdxLists), way \in {PTrue, PFalse},
          m \in 1..Len(ApiBulkAnswers(<<>>, PTrue, <<>>)) :
           LET resp == ApiBulkAnswers(<<"signup">>, way, IdxLists[i])[m]
           IN  Called("modify_bulk_signup", <<IdxLists[i], way>>, resp,
                      modify_bulk_signup(IdxLists[i], way, resp))

CallBulkBlock ==
    /\ page = "none"
    /\ \E i \in 1..Len(IdxLists), way \in {PTrue, PFalse},
          m \in 1..Len(ApiBulkAnswers(<<>>, PTrue, <<>>)) :
           LET resp == ApiBulkAnswers(<<"block">>, way, IdxLists[i])[m]
           IN  Called("modify_bulk_block", <<IdxLists[i], way>>, resp,
                      modify_bulk_block(IdxLists[i], way, resp))

CallBulkDelete ==
    /\ page = "none"
    /\ \E i \in 1..Len(IdxLists), m \in 1..Len(ApiBulkAnswers(<<>>, PTrue, <<>>)) :
           LET resp == ApiBulkAnswers(<<"delete">>, PTrue, IdxLists[i])[m]
           IN  Called("modify_bulk_delete", <<IdxLists[i]>>, resp,
                      modify_bulk_delete(IdxLists[i], resp))

CallSinglePassword ==
    /\ page = "none"
    /\ \E idx \in {0, 5}, j \in 1..Len(LoginPwds), m \in 1..Len(ApiPwdAnswers(0)) :
           Called("modify_single_password", <<idx, LoginPwds[j]>>, ApiPwdAnswers(idx)[m],
                  modify_single_password(idx, LoginPwds[j], ApiPwdAnswers(idx)[m]))

----------------------------------------------------------------------------
(* GetTable.base called directly, for the users tables the backend can     *)
(* answer with: every combination of the role flags (null included), one   *)
(* or two records, and records with a column missing or a column too many. *)

Flags == << PTrue, PFalse, None >>
\* (signup, deleted_at) of an approved account and of a blocked applicant
Standing == << <<PTrue, None>>, <<PFalse, <<"t">>>> >>

With(r, c, v) == [k \in DOMAIN r \cup {c} |-> IF k = c THEN v ELSE r[k]]

TableShapes == << "full", "no signup", "no idx", "no admin", "extra" >>
Shaped(r, shape) ==
    CASE shape = "full" -> r
      [] shape = "no signup" -> Without(r, "signup")
      [] shape = "no idx" -> Without(r, "idx")
      [] shape = "no admin" -> Without(r, "admin")
      [] shape = "extra" -> With(r, "password", <<"p">>)

TableCalled(resp, b) ==
    /\ call' = [fn |-> "GetTable.base", args |-> <<>>, resp |-> resp]
    /\ ss' = b.ss
    /\ sent' = b.req
    /\ ret' = b.ret
    /\ rendered' = [ui |-> IF b.crashed THEN "exception" ELSE "none",
                    shown |-> b.errors]
    /\ UNCHANGED <<page, rerun, gen, dialog, checked>>

CallGetTableBase ==
    /\ page = "none"
    /\ \E d \in 1..Len(Flags), a \in 1..Len(Flags), g \in 1..Len(Standing),
          t \in 1..Len(TableShapes), n \in 0..2 :
        LET first == UserRec(5, U5, Flags[d], Flags[a], Standing[g][1], Standing[g][2])
            records == SubSeq(<<first, UsersLate[2]>>, 1, n)
            resp == Fetched([i \in 1..n |-> Shaped(records[i], TableShapes[t])])
        IN  TableCalled(resp, GetTable_base(ss, resp))

----------------------------------------------------------------------------
(* schema/p1_login.py: the formats of the form fields.  utils/utils.py:    *)
(* string_space_converter.                                                 *)

Digits == {"0", "1", "2", "3", "4", "5", "6", "7", "8", "9"}
Letters == {"a", "b", "c", "d", "e", "m", "n", "u", "s", "r"}

KtrId_ok(t) ==
    /\ Len(t) = 8
    /\ t[1] \in {"1", "2"}
    /\ \A i \in 2..Len(t) : t[i] \in Digits

UserName_ok(t) == Len(t) >= 2 /\ Len(t) <= 20 /\ \A i \in 1..Len(t) : t[i] \in IdChars

\* EmailStr: one "@" after a local part, a dot inside the domain
Email_ok(t) ==
    \E i \in 2..Len(t) :
        /\ t[i] = "@"
        /\ \A j \in 1..Len(t) : j # i => t[j] \in Letters \cup Digits \cup {"."}
        /\ t[1] # "." /\ t[i - 1] # "."
        /\ \E k \in (i + 2)..(Len(t) - 1) : t[k] = "."
        /\ t[i + 1] # "." /\ t[Len(t)] # "."

\* the UniqueKeys model: every key that is given satisfies its format
UniqueKeys_ok(user_id, ktr_id, email) ==
    /\ user_id # None => UserId_ok(user_id)
    /\ ktr_id # None => KtrId_ok(ktr_id)
    /\ email # None => Email_ok(email)

string_space_converter(value) ==
    IF value = None THEN None
    ELSE [i \in 1..Len(strip(value)) |->
             IF strip(value)[i] = " " THEN "_" ELSE strip(value)[i]]

----------------------------------------------------------------------------
(* utils/p1_login.py: SignUpUniqueKeys.checker_action, the handler of the  *)
(* duplicate-check buttons.  Exactly one of user_id / ktr_id / email is a  *)
(* text (the widget's text, "" when empty), the others are None.           *)

checker_action_key(user_id, ktr_id, email) ==
    IF user_id # None THEN <<SK_USER_ID, SK_USER_ID_MSG>>
    ELSE IF ktr_id # None THEN <<SK_KTR_ID, SK_KTR_ID_MSG>>
    ELSE <<SK_EMAIL, SK_EMAIL_MSG>>

\* the text that is checked: the first argument that is not None
checker_value(user_id, ktr_id, email) ==
    IF user_id # None THEN user_id ELSE IF ktr_id # None THEN ktr_id ELSE email

checker_action_value(user_id, ktr_id, email) ==
    IF checker_value(user_id, ktr_id, email) = <<>>
    THEN <<FALSE, Msg("LoginSignupMsg.ENTER_NULL")>>
    ELSE IF UniqueKeys_ok(user_id, ktr_id, email) THEN <<TRUE, None>>
    ELSE IF user_id # None
    THEN <<FALSE, <<"LoginSignupMsg.ENTER_OVER", "LoginSignupMsg.USER_ID_PAT">> >>
    ELSE <<FALSE, Msg("LoginSignupMsg.ENTER_OVER")>>

SetLock(s, keys, lock, msg) == Put(Put(s, keys[1], lock), keys[2], msg)

checker_action(s, user_id, ktr_id, email, resp) ==
    LET keys == checker_action_key(user_id, ktr_id, email)
        value == checker_action_value(user_id, ktr_id, email)
        out == verify_unique_key(user_id, ktr_id, email, resp)
        duplicated == out.ret[1]
    IN  IF ~value[1]
        THEN [ss |-> SetLock(s, keys, PFalse, value[2]), req |-> {}, ret |-> NoRet]
        ELSE IF Truthy(duplicated)
        THEN [ss |-> SetLock(s, keys, PFalse, out.ret[2]), req |-> out.req, ret |-> out.ret]
        ELSE [ss |-> SetLock(s, keys, PTrue, out.ret[2]), req |-> out.req, ret |-> out.ret]

\* what the user can have typed into the fields
FormIds == << <<>>, <<"u", "s">>, <<"u", "s", "e", "r">>, <<"a", "d", "m", "n">> >>
FormKtrIds == << <<>>, <<"1">>, <<"1", "2", "3", "4", "5", "6", "7", "8">> >>
FormEmails == << <<>>, <<"e">>, <<"x">>, <<"a", "@", "b", ".", "c">> >>
FormPwds == LoginPwds
FormNames == << <<>>, <<"n">>, <<"n", " ", "m">> >>
Ticks == << FALSE, TRUE >>

\* the answers of the backend to a duplicate check
CheckAnswers ==
    << NetErr, Ok2xx(NotJson),
       Ok2xx(Json([ok |-> PTrue, key |-> <<"k">>, exists |-> PTrue, msg |-> <<"m">>])),
       Ok2xx(Json([ok |-> PTrue, key |-> <<"k">>, exists |-> PFalse, msg |-> <<"m">>])) >>

\* the run of a duplicate-check button of a form: the form's UI starts with
\* keys_rock(), checker_action always ends with st.rerun()
CheckButton(component, user_id, ktr_id, email, r) ==
    RunChecked("login", r.ss, component, {}, TRUE, r.req, r.ret,
               [k \in LockKeys |->
                   IF k = checker_action_key(user_id, ktr_id, email)[1]
                   THEN checker_value(user_id, ktr_id, email) ELSE None])

\* SignUp.UI, the three duplicate-check buttons
CheckUserId ==
    /\ Click("login", "SignUp")
    /\ \E i \in 1..Len(FormIds), a \in 1..Len(CheckAnswers) :
        CheckButton("SignUp", FormIds[i], None, None,
            checker_action(keys_rock(PageHead(ss)), FormIds[i], None, None, CheckAnswers[a]))
    /\ Idle

CheckKtrId ==
    /\ Click("login", "SignUp")
    /\ \E i \in 1..Len(FormKtrIds), a \in 1..Len(CheckAnswers) :
        CheckButton("SignUp", None, FormKtrIds[i], None,
            checker_action(keys_rock(PageHead(ss)), None, FormKtrIds[i], None, CheckAnswers[a]))
    /\ Idle

CheckEmail ==
    /\ Click("login", "SignUp")
    /\ \E i \in 1..Len(FormEmails), a \in 1..Len(CheckAnswers) :
        CheckButton("SignUp", None, None, FormEmails[i],
            checker_action(keys_rock(PageHead(ss)), None, None, FormEmails[i], CheckAnswers[a]))
    /\ Idle

----------------------------------------------------------------------------
(* utils/p1_login.py: SignUpAction, the handler of the signup button       *)

\* the labels of the fields in the messages: account, employee number,
\* email; password, password check, user name
check_keys_rock(s) ==
    IF ~Truthy(Get(s, SK_USER_ID))
    THEN <<"LoginSignupMsg.ENTER_TARGET_NOT_PASS", "account">>
    ELSE IF ~Truthy(Get(s, SK_KTR_ID))
    THEN <<"LoginSignupMsg.ENTER_TARGET_NOT_PASS", "employee number">>
    ELSE IF ~Truthy(Get(s, SK_EMAIL))
    THEN <<"LoginSignupMsg.ENTER_TARGET_NOT_PASS", "email">>
    ELSE None

check_pwd_and_username_empty(pwd_raw, pwd_check, user_name) ==
    IF ~Truthy(pwd_raw) THEN <<"LoginSignupMsg.ENTER_TARGET_NULL", "password">>
    ELSE IF ~Truthy(pwd_check)
    THEN <<"LoginSignupMsg.ENTER_TARGET_NULL", "password check">>
    ELSE IF ~Truthy(user_name) THEN <<"LoginSignupMsg.ENTER_TARGET_NULL", "user name">>
    ELSE None

check_pwd_and_username(pwd_raw, pwd_check, user_name) ==
    IF pwd_raw # pwd_check THEN Msg("LoginSignupMsg.PWD_MISSMATCH")
    ELSE IF ~Password_ok(pwd_raw) THEN Msg("LoginSignupMsg.ENTER_WRONG_PWD")
    ELSE IF ~UserName_ok(user_name) THEN Msg("LoginSignupMsg.ENTER_WRONG_USERNAME")
    ELSE None

PBool(b) == IF b THEN PTrue ELSE PFalse

\* the message of the first check of SignUpAction.run that fails, None when
\* all pass; user_name is the converted name
SignUpAction_checks(s, pwd_raw, pwd_check, user_name, p_info_agree) ==
    IF check_keys_rock(s) # None THEN check_keys_rock(s)
    ELSE IF check_pwd_and_username_empty(pwd_raw, pwd_check, user_name) # None
    THEN check_pwd_and_username_empty(pwd_raw, pwd_check, user_name)
    ELSE IF check_pwd_and_username(pwd_raw, pwd_check, user_name) # None
    THEN check_pwd_and_username(pwd_raw, pwd_check, user_name)
    ELSE IF ~p_info_agree THEN Msg("LoginSignupMsg.PERSONAL_INFO_NOT_AGREE")
    ELSE None

\* the part of SignUpAction.run after the checks
SignUpAction_send(s, is_developer, out) ==
    IF Truthy(out.ret[1])
    THEN [ss |-> keys_rock_init(s), req |-> out.req, ret |-> out.ret,
          shown |-> {IF is_developer THEN Msg("LoginSignupMsg.SUCCESS_ADD_DEV")
                     ELSE out.ret[2]}]
    ELSE [ss |-> s, req |-> out.req, ret |-> out.ret, shown |-> {out.ret[2]}]

\* a mutated handler: the consent is not looked at
SignUpAction_run_noagree(s, user_id, ktr_id, email, pwd_raw, pwd_check, user_name, is_developer, p_info_agree, resp) ==
    IF SignUpAction_checks(s, pwd_raw, pwd_check, string_space_converter(user_name), TRUE) # None
    THEN [ss |-> s, req |-> {}, ret |-> NoRet,
          shown |-> {SignUpAction_checks(s, pwd_raw, pwd_check,
                                         string_space_converter(user_name), TRUE)}]
    ELSE SignUpAction_send(s, is_developer,
            add_new_user(user_id, ktr_id, email, pwd_raw, pwd_check,
                         string_space_converter(user_name), PBool(is_developer),
                         IF is_developer THEN PFalse ELSE None, resp))

SignUpAction_run(s, user_id, ktr_id, email, pwd_raw, pwd_check, user_name, is_developer, p_info_agree, resp) ==
    IF SignUpAction_checks(s, pwd_raw, pwd_check, string_space_converter(user_name),
                           p_info_agree) # None
    THEN [ss |-> s, req |-> {}, ret |-> NoRet,
          shown |-> {SignUpAction_checks(s, pwd_raw, pwd_check,
                                         string_space_converter(user_name), p_info_agree)}]
    ELSE SignUpAction_send(s, is_developer,
            add_new_user(user_id, ktr_id, email, pwd_raw, pwd_check,
                         string_space_converter(user_name), PBool(is_developer),
                         IF is_developer THEN PFalse ELSE None, resp))

\* the answers of the backend to a signup
SignUpAnswers ==
    << NetErr, Ok2xx(NotJson), Ok2xx(Json([ok |-> PFalse])),
       Ok2xx(Json([ok |-> PTrue, idx |-> JInt(3)])) >>

\* the run of a handler that ends without st.rerun()
FormRun(component, r) == RunShown("login", r.ss, component, r.shown, FALSE, r.req, r.ret)

\* the password and its check as typed into a form
FormPwdPairs == << <<1, 1>>, <<3, 1>>, <<3, 2>>, <<2, 2>>, <<3, 3>> >>

\* SignUp.UI, the signup button
SignUpSubmit ==
    /\ Click("login", "SignUp")
    /\ \E i \in 3..Len(FormIds), p \in 1..Len(FormPwdPairs), n \in 1..Len(FormNames),
          d \in 1..2, g \in 1..2, a \in 1..Len(SignUpAnswers) :
        /\ a = 1 \/ SignUpAction_checks(keys_rock(PageHead(ss)), FormPwds[FormPwdPairs[p][1]],
                        FormPwds[FormPwdPairs[p][2]],
                        string_space_converter(FormNames[n]), Ticks[g]) = None
        /\ FormRun("SignUp",
              SignUpAction_run(keys_rock(PageHead(ss)), FormIds[i], FormKtrIds[3],
                  FormEmails[4], FormPwds[FormPwdPairs[p][1]], FormPwds[FormPwdPairs[p][2]],
                  FormNames[n], Ticks[d], Ticks[g], SignUpAnswers[a]))
    /\ Idle

----------------------------------------------------------------------------
(* utils/p1_login.py: input_cleaner, EditAction, SoftDeleteAction          *)

\* input_cleaner of a text: None for an empty or blank text
input_cleaner(value) == IF strip(value) = <<>> THEN None ELSE value

\* input_cleaner(value, is_boolean=True): None for an unticked box
input_cleaner_boolean(value) == IF value THEN PTrue ELSE None

pwd_current_check(pwd_current) ==
    IF pwd_current = <<>> \/ pwd_current = None
    THEN Msg("LoginSelfUpdateMsg.CURRENT_PWD_NULL")
    ELSE IF ~Password_ok(pwd_current) THEN Msg("LoginSelfUpdateMsg.CURRENT_PWD_WRONG")
    ELSE None

check_all_null(user_name, developer, email, pwd_new_raw, pwd_new_check) ==
    IF \A t \in {user_name, developer, email, pwd_new_raw, pwd_new_check} : t = None
    THEN Msg("LoginSelfUpdateMsg.ALL_NULL")
    ELSE None

check_email_rock(s) ==
    IF Truthy(Get(s, SK_EMAIL)) THEN None ELSE Msg("LoginSelfUpdateMsg.EMAIL_CHECK_NEED")

check_email(s, email) ==
    IF email = None THEN None
    ELSE IF email = Get(s, EMAIL) THEN Msg("LoginSelfUpdateMsg.EMAIL_DUPLICATE")
    ELSE IF ~Email_ok(email) THEN Msg("LoginSelfUpdateMsg.EMAIL_CHECK_NEED")
    ELSE check_email_rock(s)

check_password(pwd_current, pwd_new_raw, pwd_new_check) ==
    IF pwd_new_raw = None THEN None
    ELSE IF pwd_new_raw # pwd_new_check THEN Msg("LoginSignupMsg.PWD_MISSMATCH")
    ELSE IF pwd_current = pwd_new_raw THEN Msg("LoginSelfUpdateMsg.PWD_DUPLOCATED")
    ELSE IF ~Password_ok(pwd_new_raw) THEN Msg("LoginSignupMsg.ENTER_WRONG_PWD")
    ELSE None

\* a mutated check: the email lock is not looked at
value_check_norock(s, user_name, developer, email, pwd_current, pwd_new_raw, pwd_new_check) ==
    IF check_all_null(string_space_converter(user_name), developer, email,
                      pwd_new_raw, pwd_new_check) # None
    THEN Msg("LoginSelfUpdateMsg.ALL_NULL")
    ELSE IF email # None /\ email = Get(s, EMAIL)
    THEN Msg("LoginSelfUpdateMsg.EMAIL_DUPLICATE")
    ELSE IF email # None /\ ~Email_ok(email) THEN Msg("LoginSelfUpdateMsg.EMAIL_CHECK_NEED")
    ELSE check_password(pwd_current, pwd_new_raw, pwd_new_check)

\* EditAction._value_check: the message of the first check that fails
value_check(s, user_name, developer, email, pwd_current, pwd_new_raw, pwd_new_check) ==
    IF check_all_null(string_space_converter(user_name), developer, email,
                      pwd_new_raw, pwd_new_check) # None
    THEN Msg("LoginSelfUpdateMsg.ALL_NULL")
    ELSE IF check_email(s, email) # None THEN check_email(s, email)
    ELSE check_password(pwd_current, pwd_new_raw, pwd_new_check)

\* EditAction._session_update
session_update(s, result) ==
    LET s1 == IF result.user_name # None THEN Put(s, USER_NAME, result.user_name) ELSE s
    IN  IF result.email # None THEN Put(s1, EMAIL, result.email) ELSE s1

\* the part of EditAction.run after the checks
EditAction_send(s, out) ==
    IF IsRaised(out.ret)
    THEN [ss |-> s, req |-> out.req, ret |-> out.ret, shown |-> {}, crashed |-> TRUE]
    ELSE IF Truthy(out.ret[1])
    THEN [ss |-> keys_rock_init(session_update(s, out.ret[3][2])), req |-> out.req,
          ret |-> out.ret, shown |-> {out.ret[2]}, crashed |-> FALSE]
    ELSE [ss |-> s, req |-> out.req, ret |-> out.ret, shown |-> {out.ret[2]},
          crashed |-> FALSE]

Unsent(s, msg) == [ss |-> s, req |-> {}, ret |-> NoRet, shown |-> {msg}, crashed |-> FALSE]

EditAction_run(s, pwd_current, user_name, developer, email, pwd_new_raw, pwd_new_check, resp) ==
    IF pwd_current_check(pwd_current) # None THEN Unsent(s, pwd_current_check(pwd_current))
    ELSE IF value_check(s, user_name, developer, email, pwd_current,
                        pwd_new_raw, pwd_new_check) # None
    THEN Unsent(s, value_check(s, user_name, developer, email, pwd_current,
                               pwd_new_raw, pwd_new_check))
    ELSE EditAction_send(s,
            self_update(Get(s, ID), pwd_current, user_name, developer, email,
                        pwd_new_raw, pwd_new_check, resp))

pwd_checker(password) ==
    IF password = None \/ password = <<>> THEN Msg("LoginSelfBlockMsg.PWD_NULL")
    ELSE IF ~Password_ok(password) THEN Msg("LoginSelfBlockMsg.PWD_WRONG")
    ELSE None

\* the part of SoftDeleteAction.run after the check
SoftDeleteAction_send(s, out) ==
    IF Truthy(out.ret[1])
    THEN [ss |-> init_session(s, TRUE), req |-> out.req, ret |-> out.ret,
          shown |-> {out.ret[2]}, crashed |-> FALSE]
    ELSE [ss |-> s, req |-> out.req, ret |-> out.ret, shown |-> {out.ret[2]},
          crashed |-> FALSE]

\* a mutated handler: every answered request logs out
SoftDeleteAction_run_anyanswer(s, password, resp) ==
    IF pwd_checker(password) # None THEN Unsent(s, pwd_checker(password))
    ELSE SoftDeleteAction_send(
            IF self_block(Get(s, ID), password, resp).ret[1] = PFalse
            THEN init_session(s, TRUE) ELSE s,
            self_block(Get(s, ID), password, resp))

SoftDeleteAction_run(s, password, resp) ==
    IF pwd_checker(password) # None THEN Unsent(s, pwd_checker(password))
    ELSE SoftDeleteAction_send(s, self_block(Get(s, ID), password, resp))

----------------------------------------------------------------------------
(* Direct calls of the form handlers of utils/p1_login.py, each from a     *)
(* session as the form's page run has prepared it, with the form's texts   *)
(* and the backend's answer drawn from small sets.                         *)

\* the session of a visitor on the sign_up view whose duplicate checks of
\* the keys in L have passed
LockMsgKey(l) ==
    CASE l = SK_USER_ID -> SK_USER_ID_MSG
      [] l = SK_KTR_ID -> SK_KTR_ID_MSG
      [] l = SK_EMAIL -> SK_EMAIL_MSG

SignUpSession(L) ==
    [k \in SessionKeys |->
        CASE k \in L -> Val(PTrue)
          [] k \in {LockMsgKey(l) : l \in L} -> Val(<<"m">>)
          [] k = LOGIN_VIEW -> Val(SIGN_UP)
          [] OTHER -> keys_rock_init(PageHead([j \in SessionKeys |-> Absent]))[k]]

HandlerCalled(fn, args, resp, r) ==
    /\ call' = [fn |-> fn, args |-> args, resp |-> resp]
    /\ ss' = r.ss
    /\ sent' = r.req
    /\ ret' = r.ret
    /\ rendered' = [ui |-> "none", shown |-> r.shown]
    /\ UNCHANGED <<page, rerun, gen, dialog, checked>>

CallSignUpAction ==
    /\ page = "none" /\ call = NoCall
    /\ \E L \in SUBSET LockKeys, p \in 1..Len(FormPwds), c \in 1..Len(FormPwds),
          n \in 1..Len(FormNames), d \in 1..2, g \in 1..2, a \in 1..Len(SignUpAnswers) :
        HandlerCalled("SignUpAction.run",
            <<L, FormPwds[p], FormPwds[c], FormNames[n], Ticks[d], Ticks[g]>>,
            SignUpAnswers[a],
            SignUpAction_run(SignUpSession(L), FormIds[3], FormKtrIds[3],
                FormEmails[4], FormPwds[p], FormPwds[c], FormNames[n],
                Ticks[d], Ticks[g], SignUpAnswers[a]))

\* the session of the account "user" after its login
UserSession ==
    keys_rock_init(login_success(PageHead([j \in SessionKeys |-> Absent]),
        <<"u", "s", "e", "r">>,
        [user_name |-> <<"n">>, ktr_id |-> <<"1">>, email |-> <<"e">>,
         developer |-> PFalse, admin |-> PFalse]))

\* the session on the edit view, the email duplicate check passed or not
EditSession(locked) ==
    IF locked
    THEN SetLock(view_changer(UserSession, EDIT), <<SK_EMAIL, SK_EMAIL_MSG>>, PTrue, <<"m">>)
    ELSE view_changer(UserSession, EDIT)

AnotherPwd == <<"p", "a", "s", "s", "w", "o", "r", "d", "2", "1", "2", "1">>
EditPwds == FormPwds \o <<AnotherPwd>>

\* the answers of the backend to a self-update
SelfUpdateAnswers ==
    << NetErr, Ok2xx(NotJson), Ok2xx(Json([ok |-> PFalse])),
       Ok2xx(Json([ok |-> PTrue, user_name |-> None, email |-> None])),
       Ok2xx(Json([ok |-> PTrue, user_name |-> <<"n", "_", "m">>,
                   email |-> <<"a", "@", "b", ".", "c">>])),
       Ok2xx(Json([ok |-> PTrue])) >>

CallEditAction ==
    /\ page = "none" /\ call = NoCall
    /\ \E l \in 1..2, o \in 1..Len(EditPwds), n \in 1..Len(FormNames), d \in 1..2,
          e \in 1..Len(FormEmails), p \in 1..Len(EditPwds), c \in {1, 4},
          a \in 1..Len(SelfUpdateAnswers) :
        HandlerCalled("EditAction.run",
            <<Ticks[l], input_cleaner(EditPwds[o]), input_cleaner(FormNames[n]),
              input_cleaner_boolean(Ticks[d]), input_cleaner(FormEmails[e]),
              input_cleaner(EditPwds[p]), input_cleaner(EditPwds[c])>>,
            SelfUpdateAnswers[a],
            EditAction_run(EditSession(Ticks[l]), input_cleaner(EditPwds[o]),
                input_cleaner(FormNames[n]), input_cleaner_boolean(Ticks[d]),
                input_cleaner(FormEmails[e]), input_cleaner(EditPwds[p]),
                input_cleaner(EditPwds[c]), SelfUpdateAnswers[a]))

\* the answers of the backend to a self-block
SelfBlockAnswers ==
    << NetErr, Status(PFalse), Ok2xx(NotJson), Ok2xx(Json([ok |-> PFalse])),
       Ok2xx(Json([ok |-> PTrue, idx |-> JInt(3)])) >>

CallSoftDeleteAction ==
    /\ page = "none" /\ call = NoCall
    /\ \E p \in 1..Len(FormPwds), a \in 1..Len(SelfBlockAnswers) :
        HandlerCalled("SoftDeleteAction.run", <<FormPwds[p]>>, SelfBlockAnswers[a],
            SoftDeleteAction_run(view_changer(UserSession, SOFT_DELETE), FormPwds[p],
                                 SelfBlockAnswers[a]))

----------------------------------------------------------------------------
(* routes/p1_login_after.py: the buttons of the edit and soft-delete forms *)

\* the run a press of a form's handler button starts renders that form
Pressed(component) ==
    Click("login", component) /\ LoginComponent(PageHead(ss)) = component

\* a handler's run: an exception leaves the page half rendered
HandlerRun(component, r) ==
    RunShown("login", r.ss, IF r.crashed THEN "exception" ELSE component,
             r.shown, FALSE, r.req, r.ret)

\* Edit.UI, the email duplicate-check button
EditCheckEmail ==
    /\ Pressed("Edit")
    /\ \E i \in 1..Len(FormEmails), a \in 1..Len(CheckAnswers) :
        CheckButton("Edit", None, None, FormEmails[i],
            checker_action(keys_rock(PageHead(ss)), None, None, FormEmails[i], CheckAnswers[a]))
    /\ Idle

\* Edit.UI, the update button
EditSubmit ==
    /\ Pressed("Edit")
    /\ \E o \in 2..3, n \in {1, 3}, e \in {1, 4}, p \in {1, 4}, a \in {1, 3, 4, 5, 6} :
        /\ a = 1 \/ EditAction_run(keys_rock(PageHead(ss)), input_cleaner(EditPwds[o]),
                       input_cleaner(FormNames[n]), None, input_cleaner(FormEmails[e]),
                       input_cleaner(EditPwds[p]), input_cleaner(EditPwds[p]),
                       NetErr).req # {}
        /\ HandlerRun("Edit",
              EditAction_run(keys_rock(PageHead(ss)), input_cleaner(EditPwds[o]),
                  input_cleaner(FormNames[n]), None, input_cleaner(FormEmails[e]),
                  input_cleaner(EditPwds[p]), input_cleaner(EditPwds[p]),
                  SelfUpdateAnswers[a]))
    /\ Idle

\* the end of the login page's script after SoftDelete.UI()
AfterSoftDelete(r) ==
    [ss |-> keys_rock_init(r.ss), req |-> r.req, ret |-> r.ret, shown |-> r.shown,
     crashed |-> r.crashed]

\* SoftDelete.UI, the block button
SoftDeleteSubmit ==
    /\ Pressed("SoftDelete")
    /\ \E p \in 1..Len(FormPwds), a \in 1..Len(SelfBlockAnswers) :
        /\ a = 1 \/ pwd_checker(FormPwds[p]) = None
        /\ HandlerRun("SoftDelete",
              AfterSoftDelete(SoftDeleteAction_run(PageHead(ss), FormPwds[p],
                                                   SelfBlockAnswers[a])))
    /\ Idle

----------------------------------------------------------------------------
(* The specifications                                                      *)

NextLogin ==
    \/ RunLogin \/ Login \/ Logout
    \/ GoSignUp \/ SignUpShowAgree \/ SignUpGoBack \/ AgreeGoBack
    \/ GoEdit \/ EditGoBack \/ EditGoSoftDelete \/ SoftDeleteGoBack

\* the handler buttons of the signup, edit and soft-delete forms
NextLoginForms ==
    \/ CheckUserId \/ CheckKtrId \/ CheckEmail \/ SignUpSubmit
    \/ EditCheckEmail \/ EditSubmit \/ SoftDeleteSubmit

NextChat ==
    \/ RunChat \/ SelectModel \/ ClearChat \/ UserInput
    \/ StartStream \/ StreamStep \/ StreamEnd

NextAdmin ==
    \/ RunAdmin \/ AdminSelect \/ AdminSearch \/ AdminFilter \/ AdminUserId
    \/ AdminSignup \/ AdminBlock \/ AdminDelete \/ DialogCancel \/ DialogDelete
    \/ AdminPassword

NextApi ==
    \/ CallVerifyLogin \/ CallVerifyUniqueKey \/ CallAddNewUser \/ CallSelfBlock
    \/ CallSelfUpdate \/ CallGetAllUserRecords \/ CallBulkSignup \/ CallBulkBlock
    \/ CallBulkDelete \/ CallSinglePassword

\* the login, chat, dashboard and PANCDR pages
Next == NextLogin \/ NextChat \/ RunDashboard \/ RunPancdr
Spec == Init /\ [][Next]_vars

\* the login page and the admin console, and the bulk client functions
\* called directly
NextConsole ==
    \/ RunLogin \/ Login \/ Logout \/ NextAdmin
    \/ CallBulkSignup \/ CallBulkBlock \/ CallBulkDelete
SpecAdmin == Init /\ [][NextConsole]_vars

\* the API client functions called directly
SpecApi == Init /\ [][NextApi]_vars

\* every page script run without a widget, and the login page's widgets
NextPages ==
    \/ NextLogin \/ RunChat \/ RunDashboard \/ RunPancdr \/ RunAdmin
SpecPages == Init /\ [][NextPages]_vars

\* the table pipeline called directly
SpecTable == Init /\ [][CallGetTableBase]_vars

\* the login page with its forms, and the loads of the other pages
NextAccount ==
    \/ NextLogin \/ NextLoginForms
    \/ RunChat \/ RunDashboard \/ RunPancdr \/ RunAdmin
SpecLogin == Init /\ [][NextAccount]_vars

\* the form handlers of the login page, called directly
NextForms == CallSignUpAction \/ CallEditAction \/ CallSoftDeleteAction
SpecForms == Init /\ [][NextForms]_vars

\* the pages of Spec with the scheduling of a script run: a pending
\* st.rerun() runs the script again, the loop over the response body goes on
\* (every read ends with a chunk, the end of the body or, after the timeout
\* at the latest, a RequestException), and Response.main goes on after
\* st.write_stream returned. Which page the user opens, and when, is free.
SpecChat ==
    /\ Init /\ [][Next]_vars
    /\ WF_vars(rerun /\ StartStream)
    /\ WF_vars(StreamStep)
    /\ WF_vars(StreamEnd)

----------------------------------------------------------------------------
(* Properties                                                              *)

\* a uniqueness-check argument that counts as supplied
Supplied(v) == v # None /\ v # <<>>

\* C1: verify_unique_key sends its request exactly when one of user_id,
\* ktr_id, email is supplied (None and "" are not supplied); with none or
\* more than one it sends nothing and returns
\* (None, UNIQUE_KEY_ONLY_ONE, None).
C1_UniqueKeyExactlyOne ==
    call.fn = "verify_unique_key" =>
        LET n == Cardinality({i \in 1..3 : Supplied(call.args[i])})
        IN  IF n = 1
            THEN sent = {Request("LoginAPIKeys.VERIFY_UNIQUE_KEY",
                                 [user_id |-> call.args[1], ktr_id |-> call.args[2],
                                  email |-> call.args[3]])}
            ELSE /\ sent = {}
                 /\ ret = <<None, Msg("LoginSignupMsg.UNIQUE_KEY_ONLY_ONE"), None>>

\* verify_unique_key was called with an email and an empty user_id, and
\* the request went out
C1_Witness ==
    /\ call.fn = "verify_unique_key"
    /\ call.args = << <<>>, None, <<"a">> >>
    /\ sent # {}

\* the JSON-parse-failure message of the module a client function is in
JsonFailMsg(fn) ==
    CASE fn = "verify_login" -> Msg("LoginMsg.PARSING_JSON_FAIL")
      [] fn \in {"verify_unique_key", "add_new_user"} ->
            Msg("LoginSignupMsg.PARSING_JSON_FAIL")
      [] fn = "self_block" -> Msg("LoginSelfBlockMsg.PARSING_JSON_FAIL")
      [] fn = "self_update" -> Msg("LoginSelfUpdateMsg.PARSING_JSON_FAIL")
      [] OTHER -> Msg("AdminMsg.PARSING_JSON_FAIL")

\* the backend answered the last call with a 2xx whose body is not JSON
AnsweredNotJson ==
    /\ call.fn # "none" /\ sent # {}
    /\ call.resp.kind = "2xx" /\ ~call.resp.body.json

\* C6: whichever client function of the login and admin modules made the
\* request, a 2xx response whose body is not valid JSON is parsed to
\* (None, JSON-parse-failure message, None).
C6_NotJsonIsIndeterminate ==
    AnsweredNotJson => ret = <<None, JsonFailMsg(call.fn), None>>

\* a bulk delete was answered with an unparsable body
C6_Witness ==
    /\ AnsweredNotJson
    /\ call.fn = "modify_bulk_delete"
    /\ ret[2] = Msg("AdminMsg.PARSING_JSON_FAIL")

BulkUrls ==
    {"AdminAPIKeys.BULK_SIGNUP", "AdminAPIKeys.BULK_BLOCK", "AdminAPIKeys.BULK_DELETE"}
ModifyUrls == BulkUrls \cup {"AdminAPIKeys.SINGLE_RESET_PWD"}

\* the account numbers a modification request names
Targets(q) ==
    IF q.url = "AdminAPIKeys.SINGLE_RESET_PWD" THEN {q.payload.idx}
    ELSE ToSet(q.payload.idxes)

\* the account numbers of the admin idx list the session holds
AdminAccounts(s) == {int(a) : a \in ToSet(GetOr(s, ADMIN_IDX_LIST, <<>>))}

\* C2: no script run of the admin console sends a modification request
\* (bulk signup, block, delete, single password reset) that names an
\* account whose idx is in ADMIN_IDX_LIST as the session holds it when the
\* run starts.
C2_NoAdminIdxRequested ==
    [][page' = "admin" =>
        \A q \in sent' :
            q.url \in ModifyUrls => Targets(q) \cap AdminAccounts(ss) = {}]_vars

\* the sidebar stopped the action: nothing sent, a warning flash with msg
SideBarStopped(msg) ==
    /\ page = "admin" /\ sent = {} /\ rerun
    /\ Has(ss, FLASH_ADMIN_TABLE)
    /\ Get(ss, FLASH_ADMIN_TABLE).level = "warning"
    /\ Get(ss, FLASH_ADMIN_TABLE).msg = msg

\* a run of the console with a bulk button pressed and no row selected
\* that got as far as the button's handler
NoRowPressed ==
    /\ Click("admin", "AdminMain")
    /\ SideBarAction_signup(<<>>) \/ SideBarAction_block(<<>>)
          \/ SideBarAction_delete(<<>>)
    /\ rendered'.ui # "exception"

\* C3: no bulk request (signup, block, delete) carries an empty idx list:
\* the three client functions called with an empty list send nothing and
\* return (None, NO_IDX_ENTER, None), and a bulk button pressed with no row
\* selected ends in a warning flash without a request.
C3_NoEmptyBulkRequest ==
    /\ [](\A q \in sent : q.url \in BulkUrls => q.payload.idxes # <<>>)
    /\ []((page = "none" /\ call.fn \in {"modify_bulk_signup", "modify_bulk_block",
                                           "modify_bulk_delete"}
              /\ call.args[1] = <<>>)
            => (sent = {} /\ ret = <<None, Msg("AdminMsg.NO_IDX_ENTER"), None>>))
    /\ [][NoRowPressed => SideBarStopped(Msg("AdminMsg.NO_IDX_ENTER"))']_vars

\* a bulk button was pressed in the console with the table on the screen
\* and no row selected
C3_Witness ==
    /\ SideBarStopped(Msg("AdminMsg.NO_IDX_ENTER"))
    /\ GridShown(ss)

\* nothing of the logged-in period is left in the session
SessionDestroyed(s) ==
    /\ Get(s, LOGGED_IN) = PFalse
    /\ \A k \in {ID, USER_NAME, KTR_ID, EMAIL, IS_DEVELOPER, IS_ADMIN} :
          Get(s, k) = None
    /\ Get(s, MESSAGE) = <<>>
    /\ \A k \in TableKeys \cup {ADMIN_IDX_LIST, BLOCK_IDX_LIST, INDEX_LIST,
                                FLASH_ADMIN_TABLE} : ~Has(s, k)

\* C4: after the logout handler nothing stored while logged in survives
\* outside the cached model information: the login flag is false, identity
\* and role fields are None, the chat history is empty, and no admin table,
\* admin/blocked idx list, row selection or flash is left.
C4_LogoutDestroysSession == [][Logout => SessionDestroyed(ss')]_vars

Streaming == gen.on /\ gen.chunks # <<>>

\* C5: a running chat response can be cancelled: while chunks are still to
\* come a step can set STOP_STREAM, and with the flag set no further chunk
\* is yielded.
C5_StreamCancellable ==
    Streaming =>
        /\ ENABLED (Next /\ Get(ss', STOP_STREAM) = PTrue)
        /\ Get(ss, STOP_STREAM) = PTrue => ~(ENABLED StreamStep)

\* a plain load of a page: the script runs from its first line
PageLoad == RunLogin \/ RunChat \/ RunDashboard \/ RunPancdr

MainUI == {"Chat", "Dashboard", "Pancdr", "AdminMain"}

\* C8: the chat, dashboard, PANCDR and admin pages show their main UI only
\* to a logged-in session, a session that is not logged in gets the
\* go-to-login notice only, and the admin console is shown only with
\* IS_ADMIN true, the NoAdmin notice otherwise.
C8_PagesGuarded ==
    page \in {"chat", "dashboard", "pancdr", "admin"} =>
        /\ rendered.ui \in MainUI => Get(ss, LOGGED_IN) = PTrue
        /\ ~LoggedIn(ss) => rendered.ui = "GoLogin"
        /\ rendered.ui = "AdminMain" => Get(ss, IS_ADMIN) = PTrue
        /\ (page = "admin" /\ LoggedIn(ss) /\ Get(ss, IS_ADMIN) # PTrue)
              => rendered.ui = "NoAdmin"

\* a logged-in session without the admin flag opened the admin page
C8_Witness ==
    /\ page = "admin" /\ rendered.ui = "NoAdmin"
    /\ Get(ss, LOGGED_IN) = PTrue /\ ~Truthy(Get(ss, IS_ADMIN))

\* the records of a fetch answer
FetchedRecords(resp) == resp.body.d.records[2]
TableStored == call.fn = "GetTable.base" /\ ret[1] = PTrue /\ IsDF(ret[3])

\* C9: every row of the admin table carries one role label that follows
\* from the weighted sum of the record's flags (developer 1, admin 9):
\* "user" for 0, "developer" for 1, "admin" for 9 and for 10.
C9_RoleLabel ==
    TableStored =>
        LET records == FetchedRecords(call.resp)
            table == Rows(Get(ss, TABLE_ALL))
        IN  /\ Len(table) = Len(records)
            /\ \A i \in 1..Len(records) :
                LET developer == records[i].developer = PTrue
                    admin == records[i].admin = PTrue
                    total == (IF developer THEN 1 ELSE 0) + (IF admin THEN 9 ELSE 0)
                IN  /\ role_total(records[i]) = total
                    /\ table[i].role = IF admin THEN "admin"
                                       ELSE IF developer THEN "developer" ELSE "user"

\* a table with an account that is developer and admin, and a developer
C9_Witness ==
    /\ TableStored
    /\ \E i, j \in 1..Len(FetchedRecords(call.resp)) :
        /\ FetchedRecords(call.resp)[i].developer = PTrue
        /\ FetchedRecords(call.resp)[i].admin = PTrue
        /\ Rows(Get(ss, TABLE_ALL))[i].role = "admin"
        /\ Rows(Get(ss, TABLE_ALL))[j].role = "developer"

\* the answer is a non-empty list of records whose columns are not the
\* expected ones
BadColumns(c) ==
    /\ c.fn = "GetTable.base"
    /\ FetchedRecords(c.resp) # <<>>
    /\ Columns(FetchedRecords(c.resp)) # ExpectedCols

ColumnError(records) ==
    IF ExpectedCols \ Columns(records) # {}
    THEN KeyError("missing", ExpectedCols \ Columns(records))
    ELSE KeyError("extra", Columns(records) \ ExpectedCols)

\* C10: for records with a column missing or a column too many
\* UserTable.all returns (False, the data-handling-failure message with the
\* text of the exception, None) and raises nothing; GetTable.base shows that
\* message as an error and writes nothing to the session.
C10_ColumnMismatchFailsLoudly ==
    [][BadColumns(call') =>
        /\ ret' = <<PFalse,
                    DATA_HANDLING_FAIL(ColumnError(FetchedRecords(call'.resp))),
                    None>>
        /\ rendered' = [ui |-> "none", shown |-> {ret'[2]}]
        /\ ss' = ss]_vars

\* a record without the admin column was fetched into a session without a
\* table
C10_Witness ==
    /\ BadColumns(call)
    /\ "admin" \notin Columns(FetchedRecords(call.resp))
    /\ ret[1] = PFalse /\ ret[2] \in rendered.shown
    /\ ~Has(ss, TABLE_ALL)

\* the chat history of a session ([] before the first page load)
History(s) == IF Has(s, MESSAGE) THEN Get(s, MESSAGE) ELSE <<>>
Blank(t) == \A i \in 1..Len(t) : t[i] = " "

\* C11: the chat history changes only by one appended {role, content} pair
\* or by being emptied: a submitted input appends one user message, a
\* finished stream appends one assistant message exactly when the response
\* is not empty and not whitespace only, and only the clear button and the
\* forced reset of the logout empty it.
C11_HistoryAppendOnly ==
    [][LET old == History(ss)
           new == History(ss')
       IN  /\ UserInput => new = Append(old, Message("user", <<"h">>))
           /\ StreamEnd => new = IF Blank(gen.out) THEN old
                                 ELSE Append(old, Message("assistant", gen.out))
           /\ new # old =>
                \/ UserInput
                \/ StreamEnd
                \/ (ClearChat \/ Logout) /\ new = <<>>]_vars

\* an answered input, then an input whose answer was whitespace only
C11_Witness ==
    /\ page = "chat" /\ ~gen.on /\ Get(ss, STREAMING) = PFalse
    /\ Len(History(ss)) = 3
    /\ History(ss)[2].role = "assistant"
    /\ History(ss)[3].role = "user"
    /\ sent # {}

----------------------------------------------------------------------------
(* The duplicate-check locks                                               *)

\* the locks a step sets to true
NewlyLocked == Locked(ss') \ Locked(ss)

\* C12: a uniqueness lock is set to true only by a duplicate check whose
\* request the backend answered with "the key does not exist"
\* (verify_unique_key returned False as its first element); an indeterminate
\* result (None) never sets a lock.
C12_LockOnlyWhenAbsent ==
    [][NewlyLocked # {} => ret'[1] = PFalse /\ sent' # {}]_vars

\* the signup requests a step sends
SignupRequests == {q \in sent' : q.url = "LoginAPIKeys.ADD_USER"}

\* C13: the user_id, ktr_id and email of a signup request are the texts whose
\* duplicate checks set the three locks; a text changed after its check is
\* not sent.
C13_SentValuesWereChecked ==
    [][\A q \in SignupRequests :
          /\ q.payload.user_id = checked[SK_USER_ID]
          /\ q.payload.ktr_id = checked[SK_KTR_ID]
          /\ q.payload.email = checked[SK_EMAIL]]_vars

----------------------------------------------------------------------------
(* The signup handler                                                      *)

\* the first check of the signup that fails, in the order of the claim: the
\* locks L, password p, password check c, user name n, consent g
FirstFailure(L, p, c, n, g) ==
    IF SK_USER_ID \notin L THEN <<"LoginSignupMsg.ENTER_TARGET_NOT_PASS", "account">>
    ELSE IF SK_KTR_ID \notin L
    THEN <<"LoginSignupMsg.ENTER_TARGET_NOT_PASS", "employee number">>
    ELSE IF SK_EMAIL \notin L THEN <<"LoginSignupMsg.ENTER_TARGET_NOT_PASS", "email">>
    ELSE IF p = <<>> THEN <<"LoginSignupMsg.ENTER_TARGET_NULL", "password">>
    ELSE IF c = <<>> THEN <<"LoginSignupMsg.ENTER_TARGET_NULL", "password check">>
    ELSE IF Blank(n) THEN <<"LoginSignupMsg.ENTER_TARGET_NULL", "user name">>
    ELSE IF p # c THEN Msg("LoginSignupMsg.PWD_MISSMATCH")
    ELSE IF ~Password_ok(p) THEN Msg("LoginSignupMsg.ENTER_WRONG_PWD")
    ELSE IF ~UserName_ok(string_space_converter(n))
    THEN Msg("LoginSignupMsg.ENTER_WRONG_USERNAME")
    ELSE IF ~g THEN Msg("LoginSignupMsg.PERSONAL_INFO_NOT_AGREE")
    ELSE None

SignUpCalled == call.fn = "SignUpAction.run"

\* C14: SignUpAction.run sends the signup request only when the three locks
\* are true, password, password check and user name are non-empty, the
\* passwords are equal, password and user name are well-formed and the
\* consent is ticked; otherwise it shows the message of the first of these
\* checks that fails, sends nothing and leaves the session as it is.
C14_SignupOnlyAfterAllChecks ==
    SignUpCalled =>
        LET a == call.args
            f == FirstFailure(a[1], a[2], a[3], a[4], a[6])
        IN  IF f # None
            THEN /\ sent = {}
                 /\ rendered.shown = {f}
                 /\ ss = SignUpSession(a[1])
            ELSE /\ Cardinality(sent) = 1
                 /\ \A q \in sent :
                      /\ q.url = "LoginAPIKeys.ADD_USER"
                      /\ q.payload.pwd_raw = a[2]
                      /\ q.payload.user_name = string_space_converter(a[4])

C14_Witness ==
    /\ SignUpCalled
    /\ call.args[1] = LockKeys
    /\ call.args[4] = <<"n", " ", "m">>
    /\ \E q \in sent : q.url = "LoginAPIKeys.ADD_USER" /\ q.payload.signup = PFalse
    /\ ret[1] = PTrue
    /\ Locked(ss) = {}

----------------------------------------------------------------------------
(* The login attempt                                                       *)

IsLoggedIn(s) == Has(s, LOGGED_IN) /\ LoggedIn(s)

\* the login requests a step sends
LoginRequests == {q \in sent' : q.url = "LoginAPIKeys.VERIFY_ID"}

\* id and password pass the front-end check
LoginFormOk(user_id, password) ==
    /\ user_id # <<>> /\ password # <<>>
    /\ UserId_ok(user_id) /\ Password_ok(password)

LoginFeMessages ==
    {Msg("LoginMsg.ID_NULL"), Msg("LoginMsg.PWD_NULL"), Msg("LoginMsg.ID_AND_PWD_WRONG")}

\* flag, identity and login view
LoginState(s) ==
    [k \in {LOGGED_IN, ID, USER_NAME, KTR_ID, EMAIL, IS_DEVELOPER, IS_ADMIN, LOGIN_VIEW}
        |-> s[k]]

\* C15: the login flag becomes true only in a run of the login form that
\* sent a login request with a well-formed id and password and got a truthy
\* ok from verify_login; no login request carries an id or password that
\* fails the front-end check; a run that shows a front-end message sends
\* nothing, and a run whose request was not answered with a truthy ok, like
\* a run that failed the front-end check, leaves the flag, the identity
\* fields and the login view as they were.
C15_LoginOnlyWhenVerified ==
    [][/\ IsLoggedIn(ss') /\ ~IsLoggedIn(ss) =>
            /\ Click("login", "BeforeLogin")
            /\ LoginRequests # {}
            /\ Truthy(ret'[1]) /\ ~IsRaised(ret')
            /\ Get(ss', LOGIN_VIEW) = LOGIN_AFTER
            /\ \A q \in LoginRequests : Get(ss', ID) = q.payload.user_id
       /\ \A q \in LoginRequests : LoginFormOk(q.payload.user_id, q.payload.password)
       /\ rendered'.shown \cap LoginFeMessages # {} =>
            sent' = {} /\ LoginState(ss') = LoginState(ss)
       /\ LoginRequests # {} /\ (~Truthy(ret'[1]) \/ IsRaised(ret')) =>
            LoginState(ss') = LoginState(ss)]_vars

C15_Witness ==
    /\ IsLoggedIn(ss) /\ page = "login" /\ rendered.ui = "BeforeLogin" /\ rerun
    /\ \E q \in sent : q.url = "LoginAPIKeys.VERIFY_ID" /\ Get(ss, ID) = q.payload.user_id
    /\ ret[1] = PTrue
    /\ Get(ss, IS_ADMIN) = PTrue

----------------------------------------------------------------------------
(* The edit handler                                                        *)

EditCalled == call.fn = "EditAction.run"

\* the conditions of the claim for a call of EditAction.run with the email
\* lock `locked` and the cleaned arguments of the form
EditConditions(locked, pwd_current, user_name, developer, email, pwd_new_raw, pwd_new_check) ==
    /\ pwd_current # None /\ Password_ok(pwd_current)
    /\ \E t \in {user_name, developer, email, pwd_new_raw, pwd_new_check} : t # None
    /\ email # None => email # Get(UserSession, EMAIL) /\ Email_ok(email) /\ locked
    /\ pwd_new_raw # None =>
          /\ pwd_new_raw = pwd_new_check
          /\ pwd_new_raw # pwd_current
          /\ Password_ok(pwd_new_raw)

\* C19: EditAction.run sends the self-update request only when the current
\* password is present and well-formed, at least one of user name, developer
\* flag, email, new password and new password check is supplied, a supplied
\* email differs from the session's email, is well-formed and its lock is
\* true, and a supplied new password equals its check, differs from the
\* current password and is well-formed; otherwise it shows an error, sends
\* nothing and leaves the session as it is.
C19_UpdateOnlyWhenValid ==
    EditCalled =>
        LET a == call.args
        IN  IF EditConditions(a[1], a[2], a[3], a[4], a[5], a[6], a[7])
            THEN /\ Cardinality(sent) = 1
                 /\ \A q \in sent :
                      /\ q.url = "LoginAPIKeys.SELF_UPDATE"
                      /\ q.payload.user_id = Get(UserSession, ID)
                      /\ q.payload.payload.pwd_current = a[2]
                      /\ q.payload.payload.email = a[5]
                      /\ q.payload.payload.pwd_new_raw = a[6]
            ELSE /\ sent = {}
                 /\ Cardinality(rendered.shown) = 1
                 /\ ss = EditSession(a[1])

C19_Witness ==
    /\ EditCalled
    /\ call.args[1] /\ call.args[5] = <<"a", "@", "b", ".", "c">>
    /\ call.args[6] = AnotherPwd
    /\ \E q \in sent : q.url = "LoginAPIKeys.SELF_UPDATE"
    /\ ret[1] = PTrue
    /\ Get(ss, EMAIL) = <<"a", "@", "b", ".", "c">>
    /\ Locked(ss) = {}

----------------------------------------------------------------------------
(* The soft-delete handler                                                 *)

SoftDeleteCalled == call.fn = "SoftDeleteAction.run"

\* the session holds the defaults of _init_session_action
LoggedOut(s) == \A k \in BaseKeys : s[k] = Val(SessionDefault(k))

\* C20: SoftDeleteAction.run resets the session to its defaults (logged
\* out, login view login_before) exactly when self_block returned ok True;
\* with an empty or malformed password it sends nothing; on a failed or
\* indeterminate result the session is unchanged and the user stays logged
\* in.
C20_BlockLogsOutOnlyOnSuccess ==
    SoftDeleteCalled =>
        LET password == call.args[1]
            before == view_changer(UserSession, SOFT_DELETE)
        IN  /\ (password = <<>> \/ ~Password_ok(password)) =>
                 sent = {} /\ ss = before /\ rendered.shown # {}
            /\ (password # <<>> /\ Password_ok(password)) =>
                 /\ Cardinality(sent) = 1
                 /\ \A q \in sent : /\ q.url = "LoginAPIKeys.SELF_BLOCK"
                                    /\ q.payload.user_id = Get(before, ID)
                                    /\ q.payload.password = password
                 /\ ret[1] = PTrue => LoggedOut(ss) /\ Get(ss, LOGIN_VIEW) = LOGIN_BEFORE
                 /\ ret[1] # PTrue => ss = before /\ IsLoggedIn(ss)

C20_Witness ==
    /\ SoftDeleteCalled
    /\ \E q \in sent : q.url = "LoginAPIKeys.SELF_BLOCK"
    /\ ret[1] = PTrue
    /\ ~IsLoggedIn(ss) /\ Get(ss, ID) = None

----------------------------------------------------------------------------
(* The login view                                                          *)

ViewsAfter == {LOGIN_AFTER, EDIT, SOFT_DELETE}
ViewsBefore == {LOGIN_BEFORE, SIGN_UP, PERSONAL_INFO_AGREE, LOST_PASSWORD}

\* C16: at the end of every script run the login flag is true exactly when
\* the login view is login_after, edit or soft_delete, and false exactly
\* when it is login_before, sign_up, p_info_agree or lost_password.
C16_FlagAndViewAgree ==
    page # "none" =>
        /\ IsLoggedIn(ss) <=> Get(ss, LOGIN_VIEW) \in ViewsAfter
        /\ ~IsLoggedIn(ss) <=> Get(ss, LOGIN_VIEW) \in ViewsBefore

\* a successful self-block: logged out on the login_before view, the
\* soft-delete form still on the screen
C16_Witness ==
    /\ page = "login" /\ rendered.ui = "SoftDelete"
    /\ ~IsLoggedIn(ss) /\ Get(ss, LOGIN_VIEW) = LOGIN_BEFORE
    /\ ret[1] = PTrue

\* the view changes of the login page
ViewEdges ==
    { <<LOGIN_BEFORE, SIGN_UP>>, <<LOGIN_BEFORE, LOGIN_AFTER>>,
      <<SIGN_UP, PERSONAL_INFO_AGREE>>, <<SIGN_UP, LOGIN_BEFORE>>,
      <<PERSONAL_INFO_AGREE, SIGN_UP>>,
      <<LOGIN_AFTER, EDIT>>, <<LOGIN_AFTER, LOGIN_BEFORE>>,
      <<EDIT, LOGIN_AFTER>>, <<EDIT, SOFT_DELETE>>,
      <<SOFT_DELETE, EDIT>>, <<SOFT_DELETE, LOGIN_BEFORE>> }

ViewOf(s) == IF Has(s, LOGIN_VIEW) THEN Get(s, LOGIN_VIEW) ELSE LOGIN_BEFORE

\* C17: a run of the login page changes the login view only along
\* login_before -> sign_up | login_after (successful login),
\* sign_up -> p_info_agree | login_before, p_info_agree -> sign_up,
\* login_after -> edit | login_before (logout),
\* edit -> login_after | soft_delete,
\* soft_delete -> edit | login_before (successful self-block);
\* a run of another page sets it to login_after or login_before according
\* to the login flag; the view is never lost_password.
C17_ViewTransitions ==
    [][/\ ViewOf(ss') # LOST_PASSWORD
       /\ ViewOf(ss') # ViewOf(ss) =>
            IF page' = "login"
            THEN /\ <<ViewOf(ss), ViewOf(ss')>> \in ViewEdges
                 /\ ViewOf(ss) = LOGIN_BEFORE /\ ViewOf(ss') = LOGIN_AFTER =>
                        IsLoggedIn(ss') /\ ret'[1] = PTrue
                 /\ ViewOf(ss) = LOGIN_AFTER /\ ViewOf(ss') = LOGIN_BEFORE =>
                        ~IsLoggedIn(ss') /\ sent' = {}
                 /\ ViewOf(ss) = SOFT_DELETE /\ ViewOf(ss') = LOGIN_BEFORE =>
                        ~IsLoggedIn(ss') /\ ret'[1] = PTrue
            ELSE ViewOf(ss') = IF IsLoggedIn(ss') THEN LOGIN_AFTER ELSE LOGIN_BEFORE]_vars

\* the soft_delete view, reached over login_after and edit
C17_Witness ==
    /\ page = "login" /\ rendered.ui = "SoftDelete" /\ ~rerun
    /\ IsLoggedIn(ss) /\ Get(ss, LOGIN_VIEW) = SOFT_DELETE
    /\ rendered.shown # {}

\* the duplicate-check state of a session is reset
LocksReset(s) ==
    /\ \A k \in LockKeys : s[k] = Val(PFalse)
    /\ \A k \in {SK_USER_ID_MSG, SK_KTR_ID_MSG, SK_EMAIL_MSG} : s[k] = Val(None)

FormViews == {SIGN_UP, EDIT}

\* the components whose buttons lead to the sign_up or the edit view
EntryComponents == {"BeforeLogin", "ShowPersonalInfoAgree", "AfterLogin", "SoftDelete"}

\* C18: whenever the login view becomes sign_up or edit, coming from another
\* view, the three uniqueness locks are false and their messages None, and
\* they still are when the rerun that follows renders the form: no passed
\* check of an earlier visit or of the other form carries over.
C18_LocksResetOnEntry ==
    [][/\ ViewOf(ss') \in FormViews /\ ViewOf(ss') # ViewOf(ss) => LocksReset(ss')
       /\ rendered'.ui \in {"SignUp", "Edit"} /\ rendered.ui \in EntryComponents =>
            LocksReset(ss') /\ checked' = NoChecked]_vars

\* the edit view entered from the soft-delete view, which is reached only
\* through the edit form
C18_Witness ==
    /\ page = "login" /\ rendered.ui = "SoftDelete" /\ rerun
    /\ Get(ss, LOGIN_VIEW) = EDIT
    /\ LocksReset(ss)

----------------------------------------------------------------------------
(* The answer to a chat input                                              *)

\* an input is waiting for its answer
Pending == Has(ss, STREAMING) /\ Get(ss, STREAMING) = PTrue

FlagsCleared ==
    /\ Has(ss, STREAMING) /\ Get(ss, STREAMING) = PFalse
    /\ Has(ss, STOP_STREAM) /\ Get(ss, STOP_STREAM) = PFalse

\* the chat page after Response.main came to its end
Answered == page = "chat" /\ ~gen.on /\ FlagsCleared

\* the statement as written: every input that set STREAMING is followed by
\* a state with STREAMING and STOP_STREAM false
C21_EveryInputAnswered == Pending ~> FlagsCleared

\* a step that stops the script run of a stream before its end: the user
\* opens another page, or has the chat page run again
Interrupt ==
    /\ gen.on
    /\ ~(/\ gen.chunks # <<>> /\ gen'.on /\ gen'.chunks = Tail(gen.chunks)
         /\ ss' = ss /\ page' = page)
    /\ ~(gen.chunks = <<>> /\ ~gen'.on /\ page' = "chat" /\ rerun')

\* C21: the step that sets STREAMING to true is a step of the chat page that
\* ends with st.rerun(); the run that follows it sends the chat request and
\* starts the stream; the step that ends a stream on the chat page, with or
\* without the error text of a RequestException, sets STREAMING and
\* STOP_STREAM to false and ends with st.rerun(); and every input that set
\* STREAMING is eventually answered in this way, unless the user has left
\* the chat page with the answer pending or stops the streaming runs again
\* and again for ever.
C21_AnsweredUnlessInterrupted ==
    /\ [][~Pending /\ Pending' => page' = "chat" /\ rerun']_vars
    /\ [][Pending /\ rerun /\ page = "chat" =>
             /\ page' = "chat" /\ gen'.on
             /\ \E q \in sent' : q.url = "ChatAPIKeys.CHAT"]_vars
    /\ [][gen.on /\ ~gen'.on /\ page' = "chat" =>
             /\ Get(ss', STREAMING) = PFalse /\ Get(ss', STOP_STREAM) = PFalse
             /\ rerun']_vars
    /\ \/ []<><<Interrupt>>_vars
       \/ (Pending ~> (Answered \/ page # "chat"))

\* a stream that ended with the error text has been answered: the text is
\* the assistant's message, the flags are false, the rerun is pending
C21_Witness ==
    /\ Answered /\ rerun
    /\ Get(ss, MESSAGE) # <<>>
    /\ LET m == Get(ss, MESSAGE)[Len(Get(ss, MESSAGE))]
       IN  m.role = "assistant" /\ m.content[Len(m.content)] = "!"

====
